---- MODULE Spec2Model ----
(***************************************************************************)
(* A model of the ROM-Plumes core.                                         *)
(*                                                                         *)
(*   - PLUME.regress_multiframe_mean (src/rom_plumes/models.py): the       *)
(*     per-frame regression batch, one loop iteration per action.          *)
(*   - PLUME.concentric_circle with find_max_on_boundary and               *)
(*     find_next_center (src/models.py): the ring tracker's origin check   *)
(*     and ring search, one ring per action.                               *)
(*                                                                         *)
(* Floating point values are exact rationals <<num, den>> in lowest terms  *)
(* with den > 0; NaN is <<0, 0>>.  Pixel coordinates, intensities and      *)
(* radii are integers; tolerances and scales are rationals <<num, den>>.   *)
(***************************************************************************)
EXTENDS Integers, Sequences, FiniteSets, TLC

VARIABLES
    \* ---- regress_multiframe_mean ----
    mean_points,        \* the argument: sequence of <<frame, PlumePoints>>
    mean_points_before, \* the caller's copy of the argument, taken before the call
    regression_method,  \* "linear" | "poly" | "poly_inv" | "poly_para"
    poly_deg,
    decenter,           \* None or <<x, y>>
    n_coef,             \* column count of coef_time_series
    coef_time_series,   \* sequence of rows, each a sequence of rationals
    i,                  \* loop index of the for loop (0-based, as in the code)
    n_warnings,         \* warnings.warn calls so far
    rpc,                \* position in regress_multiframe_mean
    \* ---- concentric_circle ----
    orig_center,        \* self.orig_center: None or <<col, row>>
    img_gray,           \* the gray frame: [rows -> [cols -> intensity]]
    radii,
    num_of_circs,
    interior_scale,     \* rational <<num, den>>
    rtol,               \* rational <<num, den>>
    atol,               \* rational <<num, den>>
    thresholded,        \* TRUE once cv2.threshold / findContours ran on the frame
    points_mean,        \* the mean path array, index 0..num_of_circs -> <<x, y>>
    center,             \* the last accepted point
    step,               \* loop variable of the ring search
    error_occured,
    cpc,                \* position in concentric_circle
    exc,                \* the exception concentric_circle raised, or None
    mean_smoothing,     \* the argument mean_smoothing
    mean_smoothing_sigma,
    \* ---- the math functions of utils.py, one call at a time ----
    fn,                 \* the function called
    args,               \* its arguments
    ret,                \* its return value
    gpc,                \* "call" before, "done" after
    \* ---- a PLUME session: train_variance and var_func_on_poly.eval_x ----
    self_orig_center,   \* self.orig_center of the session
    mean_poly,          \* self.mean_poly: per-frame (a, b, c), index 0..
    var1_params_opt,
    var2_params_opt,
    var1_func,          \* a var_func_on_poly object, or None
    var2_func,
    eval_call,          \* the eval_x call that returned last: name, t, x, value, object
    vpc,                \* position in train_variance
    \* ---- apply_gauss_time_blur ----
    blur_arr,           \* the argument arr: the frames, one intensity per frame
    kernel_size,
    iterative,
    blurred_arr,        \* the output array, None until allocated
    blur_i,             \* loop index of the iterative branch
    bpc,                \* position in apply_gauss_time_blur
    bexc,               \* the exception it raised, or None
    \* ---- the frames of regress_multiframe_mean handed to workers ----
    pending,            \* list positions no worker has taken yet
    inflight,           \* fitted frames whose row is not yet assigned
    \* ---- concentric_circle from the mean fit on ----
    poly_deg_cc,        \* the argument poly_deg of concentric_circle
    selected_contours,  \* the selected contours, each a sequence of <<x, y>>
    poly_coef_mean,     \* np.polyfit of the mean path, highest power first
    intersection_points,
    var_above,
    var_below,
    var1_points,
    var2_points,
    points_var1,
    points_var2

rvars == << mean_points, mean_points_before, regression_method, poly_deg,
            decenter, n_coef, coef_time_series, i, n_warnings, rpc >>

cvars == << orig_center, img_gray, radii, num_of_circs, interior_scale, rtol,
            atol, thresholded, points_mean, center, step, error_occured, cpc, exc,
            mean_smoothing, mean_smoothing_sigma >>

gvars == << fn, args, ret, gpc >>

svars == << self_orig_center, mean_poly, var1_params_opt, var2_params_opt,
            var1_func, var2_func, eval_call, vpc >>

bvars == << blur_arr, kernel_size, iterative, blurred_arr, blur_i, bpc, bexc >>

pvars == << pending, inflight >>

evars == << poly_deg_cc, selected_contours, poly_coef_mean, intersection_points,
            var_above, var_below, var1_points, var2_points, points_var1,
            points_var2 >>

vars == << rvars, cvars, gvars, svars, bvars, pvars, evars >>

None == "None"

(***************************************************************************)
(* Bounds of the model.                                                    *)
(***************************************************************************)
MaxFrames == 2      \* longest mean_points list
MaxPts == 3         \* most points in one frame
DefaultPolyDeg == 2 \* poly_deg: int = 2

(***************************************************************************)
(* Exact rational arithmetic for the coefficient values.                   *)
(***************************************************************************)
Abs(n) == IF n < 0 THEN -n ELSE n

RECURSIVE GCD(_, _)
GCD(a, b) == IF b = 0 THEN a ELSE GCD(b, a % b)

\* The element of a one-element set: Only({ e(x) : x \in { v } }) is e at the
\* value of v, with v evaluated once.
Only(S) == CHOOSE v \in S : TRUE

NaN == << 0, 0 >>

Zero == << 0, 1 >>

Rat(n, d) ==
    IF d = 0 THEN NaN
    ELSE LET g == GCD(Abs(n), Abs(d))
             s == IF d < 0 THEN -1 ELSE 1
         IN  << (s * n) \div g, (s * d) \div g >>

IsFinite(q) == q[2] # 0

RECURSIVE Pow(_, _)
Pow(b, e) == IF e = 0 THEN 1 ELSE b * Pow(b, e - 1)

RECURSIVE SumTo(_, _)
\* sum of f[1] .. f[n]
SumTo(f, n) == IF n = 0 THEN 0 ELSE f[n] + SumTo(f, n - 1)

RemoveAt(s, k) == [j \in 1..(Len(s) - 1) |-> IF j < k THEN s[j] ELSE s[j + 1]]

RECURSIVE Det(_)
\* determinant by expansion along the first row
Det(M) ==
    IF Len(M) = 1 THEN M[1][1]
    ELSE LET n == Len(M)
             Minor(c) == [r \in 1..(n - 1) |-> RemoveAt(M[r + 1], c)]
             Term(c) == (IF c % 2 = 1 THEN 1 ELSE -1) * M[1][c] * Det(Minor(c))
         IN  SumTo([c \in 1..n |-> Term(c)], n)

(***************************************************************************)
(* Per-frame regression (regressions.regress_frame_mean).  A PlumePoints   *)
(* array is a sequence of rows <<radius, x, y>>.                           *)
(***************************************************************************)
Col(arr, c) == [k \in 1..Len(arr) |-> arr[k][c]]

\* Least-squares polynomial of degree deg through (X[k], Y[k]), by the normal
\* equations A a = b with A[j][k] = sum X^(j+k-2), b[j] = sum X^(j-1) Y, solved
\* exactly (Cramer's rule).  Coefficients are returned highest power first.
PolyFit(X, Y, deg) ==
    LET n == Len(X)
        S(p) == SumTo([k \in 1..n |-> Pow(X[k], p)], n)
        T(p) == SumTo([k \in 1..n |-> Pow(X[k], p) * Y[k]], n)
        A == [j \in 1..(deg + 1) |-> [k \in 1..(deg + 1) |-> S(j + k - 2)]]
        b == [j \in 1..(deg + 1) |-> T(j - 1)]
        WithCol(c) == [j \in 1..(deg + 1) |->
                         [k \in 1..(deg + 1) |-> IF k = c THEN b[j] ELSE A[j][k]]]
        D == Det(A)
    IN  [m \in 1..(deg + 1) |-> Rat(Det(WithCol(deg + 2 - m)), D)]

\* A degenerate system (fewer points than free coefficients of the polynomial)
\* fails with a linear-algebra error.
do_polynomial_regression(X, Y, deg) ==
    IF Len(X) < deg + 1
    THEN [raised |-> TRUE, coef |-> << >>]
    ELSE [raised |-> FALSE, coef |-> PolyFit(X, Y, deg)]

\* Separate polynomials x(r) and y(r), coefficients concatenated.
do_parametric_regression(R, XY, deg) ==
    LET fx == do_polynomial_regression(R, Col(XY, 1), deg)
        fy == do_polynomial_regression(R, Col(XY, 2), deg)
    IN  IF fx.raised \/ fy.raised
        THEN [raised |-> TRUE, coef |-> << >>]
        ELSE [raised |-> FALSE, coef |-> fx.coef \o fy.coef]

regress_frame_mean(arr, method, deg) ==
    CASE method = "linear"    -> do_polynomial_regression(Col(arr, 2), Col(arr, 3), 1)
      [] method = "poly"      -> do_polynomial_regression(Col(arr, 2), Col(arr, 3), deg)
      [] method = "poly_inv"  -> do_polynomial_regression(Col(arr, 3), Col(arr, 2), deg)
      [] method = "poly_para" ->
            do_parametric_regression(Col(arr, 1),
                                     [k \in 1..Len(arr) |-> << arr[k][2], arr[k][3] >>],
                                     deg)

(***************************************************************************)
(* PLUME.regress_multiframe_mean                                           *)
(***************************************************************************)
Methods == { "linear", "poly", "poly_inv", "poly_para" }

PolyDegs == 0..DefaultPolyDeg

Decenters == { None, << 1, 2 >> }

\* n_coef of the mutant: the 'linear' branch is missing.
NCoefNoLinear(method, deg) ==
    IF method = "poly_para" THEN 2 * (deg + 1) ELSE deg + 1

NCoef(method, deg) ==
    IF method = "poly_para" THEN 2 * (deg + 1)
    ELSE IF method = "linear" THEN 2
    ELSE deg + 1

\* np.zeros((n_frames, n_coef))
np_zeros(n_rows, n_cols) == [r \in 1..n_rows |-> [c \in 1..n_cols |-> Zero]]

\* The mutant of np_copy: no copy is taken, the name is bound to the caller's array.
np_alias(arr) == [shared |-> TRUE, data |-> arr]

\* np.copy(frame_points): a fresh array, not shared with the caller.
np_copy(arr) == [shared |-> FALSE, data |-> arr]

\* The mutant of SubtractDecenter: the offset's x is taken from the radius too.
SubtractAllColumns(arr, off) ==
    [k \in 1..Len(arr) |-> << arr[k][1] - off[1], arr[k][2] - off[1], arr[k][3] - off[2] >>]

\* frame_points[:, 1:] -= decenter
SubtractDecenter(arr, off) ==
    [k \in 1..Len(arr) |-> << arr[k][1], arr[k][2] - off[1], arr[k][3] - off[2] >>]

\* The mutant of NaNRow: the failed frame keeps the zeros of np.zeros.
ZeroRow(n) == [c \in 1..n |-> Zero]

\* [np.nan for _ in range(n_coef)]
NaNRow(n) == [c \in 1..n |-> NaN]

\* The mutant of RowIndex: the row is chosen by the frame number of the tuple.
RowIndexByFrame(pos, frame) == frame

\* for i, (_, frame_points) in enumerate(mean_points): coef_time_series[i] = ...
RowIndex(pos, frame) == pos

\* One iteration of the loop body on one frame's array: what is left in the
\* caller's array, whether the fit raised LinAlgError, and the value assigned
\* to the row.
FrameResult(frame_points_in, method, deg, dec, ncoef) ==
    LET fp0 == np_copy(frame_points_in)
        fp == IF dec # None
              THEN [fp0 EXCEPT !.data = SubtractDecenter(fp0.data, dec)]
              ELSE fp0
        res == regress_frame_mean(fp.data, method, deg)
    IN  [ input_after   |-> IF fp.shared THEN fp.data ELSE frame_points_in,
          lin_alg_error |-> res.raised,
          value         |-> IF res.raised THEN NaNRow(ncoef) ELSE res.coef ]

\* The input frames of the model: ring k at radius k, with pairwise distinct x
\* and pairwise distinct y.  Every prefix of the first profile (the empty frame
\* included), and the one-point and the full frame of the second.
ProfileRow(p, k) ==
    IF p = 1 THEN << k, k, (3 * k) % 7 >>
    ELSE << k, (5 * k) % 7, (2 * k) % 7 >>

FramePool ==
    { [k \in 1..n |-> ProfileRow(1, k)] : n \in 0..MaxPts }
        \cup { [k \in 1..n |-> ProfileRow(2, k)] : n \in { 1, MaxPts } }

\* The frame numbers stored in the tuples: offset by one, or reversed.
FrameLabels == { "offset", "reversed" }

LabelOf(scheme, pos, n) == IF scheme = "offset" THEN pos + 1 ELSE n - 1 - pos

FrameLists ==
    UNION { { [j \in 1..n |-> << LabelOf(sch, j - 1, n), f[j] >>] :
                  f \in [1..n -> FramePool], sch \in FrameLabels } :
            n \in 0..MaxFrames }

RegressIdle ==
    /\ mean_points = << >>
    /\ mean_points_before = << >>
    /\ regression_method = None
    /\ poly_deg = 0
    /\ decenter = None
    /\ n_coef = 0
    /\ coef_time_series = << >>
    /\ i = 0
    /\ n_warnings = 0
    /\ rpc = "off"

InitRegress ==
    /\ mean_points \in FrameLists
    /\ mean_points_before = mean_points
    /\ regression_method \in Methods
    /\ poly_deg \in PolyDegs
    /\ decenter \in Decenters
    /\ n_coef = 0
    /\ coef_time_series = << >>
    /\ i = 0
    /\ n_warnings = 0
    /\ rpc = "call"

\* n_frames = len(mean_points); n_coef by mode; coef_time_series = np.zeros(...)
RegressAlloc ==
    /\ rpc = "call"
    /\ n_coef' = NCoef(regression_method, poly_deg)
    /\ coef_time_series' = np_zeros(Len(mean_points), NCoef(regression_method, poly_deg))
    /\ i' = 0
    /\ rpc' = "loop"
    /\ UNCHANGED << mean_points, mean_points_before, regression_method, poly_deg,
                    decenter, n_warnings >>

\* One iteration of the for loop: copy, decenter, fit or NaN row, row assignment.
\* A row assignment of a vector that is neither n_coef long nor of length 1, or
\* at an index outside the array, raises and ends the call.
RegressFrame ==
    /\ rpc = "loop"
    /\ i < Len(mean_points)
    /\ LET frame == mean_points[i + 1][1]
           res == FrameResult(mean_points[i + 1][2], regression_method, poly_deg,
                              decenter, n_coef)
           row == RowIndex(i, frame)
           fits == Len(res.value) = n_coef \/ Len(res.value) = 1
           value == IF Len(res.value) = n_coef THEN res.value
                    ELSE [c \in 1..n_coef |-> res.value[1]]
       IN  /\ mean_points' = [mean_points EXCEPT ![i + 1][2] = res.input_after]
           /\ n_warnings' = IF res.lin_alg_error THEN n_warnings + 1 ELSE n_warnings
           /\ IF fits /\ row \in 0..(Len(coef_time_series) - 1)
              THEN /\ coef_time_series' = [coef_time_series EXCEPT ![row + 1] = value]
                   /\ i' = i + 1
                   /\ rpc' = "loop"
              ELSE /\ rpc' = "raised"
                   /\ UNCHANGED << coef_time_series, i >>
    /\ UNCHANGED << mean_points_before, regression_method, poly_deg, decenter, n_coef >>

\* return coef_time_series
RegressReturn ==
    /\ rpc = "loop"
    /\ i = Len(mean_points)
    /\ rpc' = "done"
    /\ UNCHANGED << mean_points, mean_points_before, regression_method, poly_deg,
                    decenter, n_coef, coef_time_series, i, n_warnings >>

NextRegress ==
    \/ RegressAlloc /\ UNCHANGED << cvars, gvars, svars, bvars, pvars, evars >>
    \/ RegressFrame /\ UNCHANGED << cvars, gvars, svars, bvars, pvars, evars >>
    \/ RegressReturn /\ UNCHANGED << cvars, gvars, svars, bvars, pvars, evars >>

(***************************************************************************)
(* The loop body of regress_multiframe_mean as the unit of work of a       *)
(* worker: a frame is fitted on the worker's own copy, then its row is     *)
(* assigned, in any order and interleaving over the frames.                *)
(***************************************************************************)
WorkersIdle ==
    /\ pending = { }
    /\ inflight = { }

\* The frames handed to workers: the empty frame, the one-point frame and the
\* full frame of either profile.
WorkerPool ==
    { [k \in 1..n |-> ProfileRow(1, k)] : n \in { 0, MaxPts } }
        \cup { [k \in 1..n |-> ProfileRow(2, k)] : n \in { 1, MaxPts } }

InitWorkers ==
    /\ InitRegress
    /\ \A j \in 1..Len(mean_points) : mean_points[j][2] \in WorkerPool

\* n_frames, n_coef, coef_time_series = np.zeros(...); every frame is to do.
WorkersAlloc ==
    /\ rpc = "call"
    /\ n_coef' = NCoef(regression_method, poly_deg)
    /\ coef_time_series' = np_zeros(Len(mean_points), NCoef(regression_method, poly_deg))
    /\ rpc' = "workers"
    /\ pending' = 0..(Len(mean_points) - 1)
    /\ inflight' = { }
    /\ UNCHANGED << mean_points, mean_points_before, regression_method, poly_deg,
                    decenter, i, n_warnings >>

\* A worker takes the entry at list position j: copy, decenter, fit or NaN row.
WorkerFit(j) ==
    /\ rpc = "workers"
    /\ j \in pending
    /\ LET res == FrameResult(mean_points[j + 1][2], regression_method, poly_deg,
                              decenter, n_coef)
       IN  /\ mean_points' = [mean_points EXCEPT ![j + 1][2] = res.input_after]
           /\ n_warnings' = IF res.lin_alg_error THEN n_warnings + 1 ELSE n_warnings
           /\ inflight' = inflight \cup
                  { [ pos |-> j, frame |-> mean_points[j + 1][1], value |-> res.value ] }
    /\ pending' = pending \ { j }
    /\ UNCHANGED << mean_points_before, regression_method, poly_deg, decenter,
                    n_coef, coef_time_series, i, rpc >>

\* The row assignment coef_time_series[i] = ... of a worker that has fitted.
WorkerAssign(w) ==
    /\ rpc = "workers"
    /\ w \in inflight
    /\ LET row == RowIndex(w.pos, w.frame)
           fits == Len(w.value) = n_coef \/ Len(w.value) = 1
           value == IF Len(w.value) = n_coef THEN w.value
                    ELSE [c \in 1..n_coef |-> w.value[1]]
       IN  IF fits /\ row \in 0..(Len(coef_time_series) - 1)
           THEN /\ coef_time_series' = [coef_time_series EXCEPT ![row + 1] = value]
                /\ rpc' = "workers"
           ELSE /\ rpc' = "raised"
                /\ UNCHANGED coef_time_series
    /\ inflight' = inflight \ { w }
    /\ UNCHANGED << mean_points, mean_points_before, regression_method, poly_deg,
                    decenter, n_coef, i, n_warnings, pending >>

\* return coef_time_series, once every frame has its row
WorkersReturn ==
    /\ rpc = "workers"
    /\ pending = { }
    /\ inflight = { }
    /\ rpc' = "done"
    /\ UNCHANGED << mean_points, mean_points_before, regression_method, poly_deg,
                    decenter, n_coef, coef_time_series, i, n_warnings, pending,
                    inflight >>

NextWorkers ==
    \/ WorkersAlloc /\ UNCHANGED << cvars, gvars, svars, bvars, evars >>
    \/ rpc = "workers" /\ \E j \in pending :
          WorkerFit(j) /\ UNCHANGED << cvars, gvars, svars, bvars, evars >>
    \/ rpc = "workers" /\ \E w \in inflight :
          WorkerAssign(w) /\ UNCHANGED << cvars, gvars, svars, bvars, evars >>
    \/ WorkersReturn /\ UNCHANGED << cvars, gvars, svars, bvars, evars >>

(***************************************************************************)
(* The ring tracker: PLUME.concentric_circle, find_max_on_boundary and     *)
(* find_next_center.  A gray image is [0..n-1 -> [0..d-1 -> intensity]]    *)
(* (rows, then columns); a mask is a set of indices <<row, col>>; a point  *)
(* is <<x, y>> = <<col, row>>.                                             *)
(***************************************************************************)
Width == 4          \* columns of the frame
MaxCircs == 3       \* largest num_of_circs

Height == Width - 1

NRows(array) == Cardinality(DOMAIN array)

NCols(array) == IF NRows(array) = 0 THEN 0 ELSE Cardinality(DOMAIN array[0])

\* xx, yy = np.meshgrid(np.arange(d), np.arange(n)): every index <<row, col>>
Indices(array) == (0..(NRows(array) - 1)) \X (0..(NCols(array) - 1))

\* (xx - col)**2 + (yy - row)**2, the square of `distances` at index ix
Dist2(ix, pt) == (ix[2] - pt[1]) * (ix[2] - pt[1]) + (ix[1] - pt[2]) * (ix[1] - pt[2])

\* np.isclose(sqrt(d2), r, rtol=rt, atol=at): |sqrt(d2) - r| <= at + rt * |r|,
\* for r >= 0, with rt = rt[1]/rt[2] and at = at[1]/at[2], cleared of the root
\* and of the denominators.
isclose_sqrt(d2, r, rt, at) ==
    LET q == rt[2] * at[2]
        tol == at[1] * rt[2] + rt[1] * r * at[2]    \* q * (at + rt * r)
        lo == q * r - tol
        hi == q * r + tol
    IN  /\ q * q * d2 <= hi * hi
        /\ lo <= 0 \/ q * q * d2 >= lo * lo

\* distances <= r * scale
within_scaled(d2, r, scale) ==
    scale[2] * scale[2] * d2 <= (r * scale[1]) * (r * scale[1])

\* max_indices[0] of np.argwhere(mask): the first index in row-major order
ArgwhereFirst(mask) ==
    CHOOSE ix \in mask :
        \A other \in mask : ix[1] < other[1] \/ (ix[1] = other[1] /\ ix[2] <= other[2])

MaxOver(array, mask) ==
    LET vals == { array[ix[1]][ix[2]] : ix \in mask }
    IN  CHOOSE v \in vals : \A w \in vals : w <= v

\* The mutant of find_max_on_boundary: the boundary mask is left out of argwhere.
find_max_anywhere(array, ctr, r, rt, at) ==
    LET boundary_mask == { ix \in Indices(array) : isclose_sqrt(Dist2(ix, ctr), r, rt, at) }
    IN  IF boundary_mask = { }
        THEN [raised |-> TRUE, max_value |-> 0, max_indices |-> None]
        ELSE LET max_value == MaxOver(array, boundary_mask)
                 first == ArgwhereFirst({ ix \in Indices(array) :
                                             array[ix[1]][ix[2]] = max_value })
             IN  [raised |-> FALSE, max_value |-> max_value,
                  max_indices |-> << first[2], first[1] >>]

\* find_max_on_boundary.  np.max of an empty subset raises ValueError.  The
\* intensities are integers, for which np.isclose(array, max_value) is equality.
find_max_on_boundary(array, ctr, r, rt, at) ==
    LET boundary_mask == { ix \in Indices(array) : isclose_sqrt(Dist2(ix, ctr), r, rt, at) }
    IN  IF boundary_mask = { }
        THEN [raised |-> TRUE, max_value |-> 0, max_indices |-> None]
        ELSE LET max_value == MaxOver(array, boundary_mask)
                 first == ArgwhereFirst({ ix \in boundary_mask :
                                             array[ix[1]][ix[2]] = max_value })
             IN  [raised |-> FALSE, max_value |-> max_value,
                  max_indices |-> << first[2], first[1] >>]

\* The mutant of find_next_center: argwhere is masked by the boundary ring
\* alone, not by the search mask.
find_next_center_on_ring(array, orig, neig_center, r, scale, rt, at) ==
    LET boundary_mask == { ix \in Indices(array) : isclose_sqrt(Dist2(ix, orig), r, rt, at) }
        interior_mask == { ix \in Indices(array) : within_scaled(Dist2(ix, neig_center), r, scale) }
        search_mask == boundary_mask \cap interior_mask
    IN  IF search_mask = { }
        THEN [raised |-> TRUE, max_value |-> 0, max_indices |-> None]
        ELSE LET max_value == MaxOver(array, search_mask)
                 first == ArgwhereFirst({ ix \in boundary_mask :
                                             array[ix[1]][ix[2]] = max_value })
             IN  [raised |-> FALSE, max_value |-> max_value,
                  max_indices |-> << first[2], first[1] >>]

\* find_next_center.  np.max of an empty subset raises ValueError.
find_next_center(array, orig, neig_center, r, scale, rt, at) ==
    LET boundary_mask == { ix \in Indices(array) : isclose_sqrt(Dist2(ix, orig), r, rt, at) }
        interior_mask == { ix \in Indices(array) : within_scaled(Dist2(ix, neig_center), r, scale) }
        search_mask == boundary_mask \cap interior_mask
    IN  IF search_mask = { }
        THEN [raised |-> TRUE, max_value |-> 0, max_indices |-> None]
        ELSE LET max_value == MaxOver(array, search_mask)
                 first == ArgwhereFirst({ ix \in search_mask :
                                             array[ix[1]][ix[2]] = max_value })
             IN  [raised |-> FALSE, max_value |-> max_value,
                  max_indices |-> << first[2], first[1] >>]

\* The mutant of OriginDeclared: the check is missing.
OriginUnchecked(oc) == TRUE

\* isinstance(self.orig_center, tuple)
OriginDeclared(oc) == oc # None

\* The mutant of BreakOnError: the loop goes on to the next ring.
NoBreakOnError(err) == FALSE

\* if error_occured == True: break
BreakOnError(err) == err

\* np.zeros(shape=(num_of_circs+1, 2)); points_mean[0] = self.orig_center
InitialPath(n_circs, oc) ==
    [k \in 0..n_circs |-> IF k = 0 THEN oc ELSE << 0, 0 >>]

\* 1000 * exp(-(e/2)^2 / 2), rounded, for the doubled offset e from the center
GaussThousandths(e) ==
    CASE e = 0 -> 1000
      [] e = 1 -> 882
      [] e = 2 -> 607
      [] e = 3 -> 325
      [] e = 4 -> 135
      [] e = 5 -> 44
      [] e = 6 -> 11
      [] e = 7 -> 2
      [] OTHER -> 0

\* The kernel of scipy.ndimage.gaussian_filter for sigma 1 or 2: offsets
\* -lw..lw with lw = int(4.0 * sigma + 0.5), weight exp(-x^2 / (2 sigma^2)) in
\* thousandths.
GaussRadius(sigma) == 4 * sigma

GaussWeight(x, sigma) == GaussThousandths((2 * Abs(x)) \div sigma)

\* mode="reflect": the array is mirrored about its edges (d c b a | a b c d | d c b a)
Reflect(j, n) ==
    LET m == j % (2 * n)
    IN  IF m < n THEN m ELSE 2 * n - 1 - m

\* gaussian_filter(column, sigma=sigma): every entry becomes the weighted mean
\* of the entries around it, a rational here.  column is indexed from 0.
gaussian_filter(column, sigma) ==
    LET n == Cardinality(DOMAIN column)
        lw == GaussRadius(sigma)
        taps == 2 * lw + 1
        total == SumTo([t \in 1..taps |-> GaussWeight(t - 1 - lw, sigma)], taps)
    IN  [k \in DOMAIN column |->
            Rat(SumTo([t \in 1..taps |->
                          GaussWeight(t - 1 - lw, sigma)
                              * column[Reflect(k + t - 1 - lw, n)]], taps),
                total)]

\* The mutant of column_stack: the two columns change places.
column_stack_swapped(a, b) == [k \in DOMAIN a |-> << b[k], a[k] >>]

\* np.column_stack((a, b))
column_stack(a, b) == [k \in DOMAIN a |-> << a[k], b[k] >>]

\* smooth_x = points_mean[:,0]; smooth_y = gaussian_filter(points_mean[:,1], ...);
\* np.column_stack((smooth_x, smooth_y)).  The new array holds floats, written
\* as rationals <<numerator, denominator>>.
SmoothedPath(pm, sigma) ==
    LET smooth_x == [k \in DOMAIN pm |-> Rat(pm[k][1], 1)]
        smooth_y == gaussian_filter([k \in DOMAIN pm |-> pm[k][2]], sigma)
    IN  column_stack(smooth_x, smooth_y)

\* ---- the inputs of the model ----
Levels == { 1, 2 }

BrightCounts == { 0, 1, 2 }

Pixels == (0..(Height - 1)) \X (0..(Width - 1))

\* A dark frame with a few brighter pixels, given as a sequence of
\* <<index, level>>; the brightest level wins where two fall on one pixel.
ImageOf(bright) ==
    [row \in 0..(Height - 1) |->
        [col \in 0..(Width - 1) |->
            LET hits == { bright[k][2] : k \in { m \in DOMAIN bright :
                                                    bright[m][1] = << row, col >> } }
            IN  IF hits = { } THEN 0 ELSE CHOOSE v \in hits : \A w \in hits : w <= v]]

Images ==
    UNION { { ImageOf(b) : b \in [1..n -> Pixels \X Levels] } : n \in BrightCounts }

Origins == { << 0, 0 >>, << 1, 1 >> }

Tolerances == { [rtol |-> << 1, 100 >>, atol |-> << 0, 1 >>, scale |-> << 3, 5 >>],
                [rtol |-> << 1, 4 >>, atol |-> << 1, 10 >>, scale |-> << 1, 1 >>] }

RadiiSet == { 1, 2, 5 }

Smoothings == { [mean_smoothing |-> FALSE, sigma |-> 2],
                [mean_smoothing |-> TRUE, sigma |-> 2] }

InitTrack ==
    /\ orig_center = None
    /\ img_gray = << >>
    /\ radii = 0
    /\ num_of_circs = 0
    /\ interior_scale = << 0, 1 >>
    /\ rtol = << 0, 1 >>
    /\ atol = << 0, 1 >>
    /\ thresholded = FALSE
    /\ points_mean = << >>
    /\ center = None
    /\ step = 0
    /\ error_occured = FALSE
    /\ cpc = "idle"
    /\ exc = None
    /\ mean_smoothing = FALSE
    /\ mean_smoothing_sigma = 0

\* The caller declares the plume source.
SetCenter(c) ==
    /\ cpc = "idle"
    /\ orig_center' = c
    /\ UNCHANGED << img_gray, radii, num_of_circs, interior_scale, rtol, atol,
                    thresholded, points_mean, center, step, error_occured, cpc, exc,
                    mean_smoothing, mean_smoothing_sigma >>

\* Entry of concentric_circle: the arguments are bound and the origin is checked.
Call(img, r, n, tol, sm) ==
    /\ cpc = "idle"
    /\ img_gray' = img
    /\ radii' = r
    /\ num_of_circs' = n
    /\ interior_scale' = tol.scale
    /\ rtol' = tol.rtol
    /\ atol' = tol.atol
    /\ mean_smoothing' = sm.mean_smoothing
    /\ mean_smoothing_sigma' = sm.sigma
    /\ IF OriginDeclared(orig_center)
       THEN cpc' = "threshold" /\ exc' = None
       ELSE cpc' = "raised" /\ exc' = "TypeError"
    /\ UNCHANGED << orig_center, thresholded, points_mean, center, step, error_occured >>

\* Thresholding, contour selection, distance arrays and drawing; then the mean
\* path array is allocated with the origin as entry 0.
Threshold ==
    /\ cpc = "threshold"
    /\ thresholded' = TRUE
    /\ points_mean' = InitialPath(num_of_circs, orig_center)
    /\ cpc' = "ring1"
    /\ UNCHANGED << orig_center, img_gray, radii, num_of_circs, interior_scale, rtol,
                    atol, center, step, error_occured, exc, mean_smoothing,
                    mean_smoothing_sigma >>

\* The first point of the path: find_max_on_boundary, outside any try block.
Ring1 ==
    /\ cpc = "ring1"
    /\ LET res == find_max_on_boundary(img_gray, orig_center, radii, rtol, atol)
       IN  IF res.raised
           THEN /\ cpc' = "raised"
                /\ exc' = "ValueError"
                /\ UNCHANGED << points_mean, center, step >>
           ELSE /\ center' = res.max_indices
                /\ points_mean' = [points_mean EXCEPT ![1] = res.max_indices]
                /\ step' = 2
                /\ cpc' = "ring"
                /\ exc' = None
    /\ UNCHANGED << orig_center, img_gray, radii, num_of_circs, interior_scale, rtol,
                    atol, thresholded, error_occured, mean_smoothing,
                    mean_smoothing_sigma >>

\* One iteration of for step in range(2, num_of_circs+1): find_next_center in a
\* try block that catches every exception, break on error, else the entry is set.
RingStep ==
    /\ cpc = "ring"
    /\ step <= num_of_circs
    /\ LET radius == radii * step
           res == find_next_center(img_gray, orig_center, center, radius,
                                   interior_scale, rtol, atol)
           new_center == IF res.raised THEN center ELSE res.max_indices
       IN  /\ error_occured' = res.raised
           /\ center' = new_center
           /\ IF BreakOnError(res.raised)
              THEN /\ cpc' = "searched"
                   /\ UNCHANGED << points_mean, step >>
              ELSE /\ points_mean' = [points_mean EXCEPT ![step] = new_center]
                   /\ step' = step + 1
                   /\ cpc' = "ring"
    /\ UNCHANGED << orig_center, img_gray, radii, num_of_circs, interior_scale, rtol,
                    atol, thresholded, exc, mean_smoothing, mean_smoothing_sigma >>

\* The range of the for loop is exhausted.
RingEnd ==
    /\ cpc = "ring"
    /\ step > num_of_circs
    /\ cpc' = "searched"
    /\ UNCHANGED << orig_center, img_gray, radii, num_of_circs, interior_scale, rtol,
                    atol, thresholded, points_mean, center, step, error_occured, exc,
                    mean_smoothing, mean_smoothing_sigma >>

\* if mean_smoothing == True: the y column is filtered, over all
\* num_of_circs + 1 rows of the array.
Smooth ==
    /\ cpc = "searched"
    /\ points_mean' = IF mean_smoothing
                      THEN SmoothedPath(points_mean, mean_smoothing_sigma)
                      ELSE points_mean
    /\ cpc' = "smoothed"
    /\ UNCHANGED << orig_center, img_gray, radii, num_of_circs, interior_scale, rtol,
                    atol, thresholded, center, step, error_occured, exc,
                    mean_smoothing, mean_smoothing_sigma >>

\* The rest of the call up to its return: the path is drawn and fitted.
Finish ==
    /\ cpc = "smoothed"
    /\ cpc' = "done"
    /\ UNCHANGED << orig_center, img_gray, radii, num_of_circs, interior_scale, rtol,
                    atol, thresholded, points_mean, center, step, error_occured, exc,
                    mean_smoothing, mean_smoothing_sigma >>

\* Control is back with the caller; the call's locals are gone.
Return ==
    /\ cpc \in { "done", "raised" }
    /\ img_gray' = << >>
    /\ radii' = 0
    /\ num_of_circs' = 0
    /\ interior_scale' = << 0, 1 >>
    /\ rtol' = << 0, 1 >>
    /\ atol' = << 0, 1 >>
    /\ thresholded' = FALSE
    /\ points_mean' = << >>
    /\ center' = None
    /\ step' = 0
    /\ error_occured' = FALSE
    /\ cpc' = "idle"
    /\ exc' = None
    /\ mean_smoothing' = FALSE
    /\ mean_smoothing_sigma' = 0
    /\ UNCHANGED orig_center

NextTrack ==
    \/ cpc = "idle" /\ \E c \in Origins : SetCenter(c) /\ UNCHANGED << rvars, gvars, svars, bvars, pvars, evars >>
    \/ cpc = "idle" /\ \E img \in Images, r \in RadiiSet, n \in 1..MaxCircs,
                          tol \in Tolerances, sm \in Smoothings :
                          Call(img, r, n, tol, sm) /\ UNCHANGED << rvars, gvars, svars, bvars, pvars, evars >>
    \/ Threshold /\ UNCHANGED << rvars, gvars, svars, bvars, pvars, evars >>
    \/ Ring1 /\ UNCHANGED << rvars, gvars, svars, bvars, pvars, evars >>
    \/ RingStep /\ UNCHANGED << rvars, gvars, svars, bvars, pvars, evars >>
    \/ RingEnd /\ UNCHANGED << rvars, gvars, svars, bvars, pvars, evars >>
    \/ Smooth /\ UNCHANGED << rvars, gvars, svars, bvars, pvars, evars >>
    \/ Finish /\ UNCHANGED << rvars, gvars, svars, bvars, pvars, evars >>
    \/ Return /\ UNCHANGED << rvars, gvars, svars, bvars, pvars, evars >>

(***************************************************************************)
(* Real arithmetic for the math functions.  A float is NaN, +inf, -inf or  *)
(* a finite value a + b*sqrt(D), with a and b rationals and D a squarefree *)
(* integer > 1 (D = 1 and b = 0 for a rational value).  The operators      *)
(* follow IEEE-754 at NaN, the infinities and division by zero; finite     *)
(* values are exact.                                                       *)
(***************************************************************************)
\* p + q over the least common denominator
QAdd(p, q) ==
    LET g == GCD(p[2], q[2])
    IN  Rat(p[1] * (q[2] \div g) + q[1] * (p[2] \div g), p[2] * (q[2] \div g))

QNeg(p) == << -p[1], p[2] >>

\* p * q, reduced crosswise before the products are taken
QMul(p, q) ==
    LET g1 == GCD(Abs(p[1]), q[2])
        g2 == GCD(Abs(q[1]), p[2])
    IN  Rat((p[1] \div g1) * (q[1] \div g2), (p[2] \div g2) * (q[2] \div g1))

\* p / q for q # 0
QDiv(p, q) ==
    IF q[1] < 0 THEN QMul(p, << -q[2], -q[1] >>) ELSE QMul(p, << q[2], q[1] >>)

QInt(n) == << n, 1 >>

QSign(p) == IF p[1] > 0 THEN 1 ELSE IF p[1] < 0 THEN -1 ELSE 0

RECURSIVE SquarePart(_, _)
\* the largest s with s*s dividing m (m > 0), searched from s upward
SquarePart(m, s) ==
    IF s * s > m THEN 1
    ELSE IF m % (s * s) = 0 THEN s * SquarePart(m \div (s * s), s)
    ELSE SquarePart(m, s + 1)

FNaN == [k |-> "nan", a |-> Zero, b |-> Zero, D |-> 1]

FInf(s) == [k |-> IF s > 0 THEN "inf" ELSE "-inf", a |-> Zero, b |-> Zero, D |-> 1]

\* a + b*sqrt(D) for an integer D >= 0, in canonical form
Fin(a, b, D) ==
    IF b = Zero \/ D = 0 THEN [k |-> "fin", a |-> a, b |-> Zero, D |-> 1]
    ELSE LET s == SquarePart(D, 2)
             E == D \div (s * s)
             c == QMul(b, QInt(s))
         IN  IF E = 1 THEN [k |-> "fin", a |-> QAdd(a, c), b |-> Zero, D |-> 1]
             ELSE [k |-> "fin", a |-> a, b |-> c, D |-> E]

FRat(q) == Fin(q, Zero, 1)

FInt(n) == FRat(QInt(n))

\* A value outside the representation: evaluating it stops the check.
Unrepresentable == CHOOSE v \in { } : TRUE

IsNaN(x) == x.k = "nan"

IsFin(x) == x.k = "fin"

\* the sign of a finite value
FSign(x) ==
    LET sa == QSign(x.a)
        sb == QSign(x.b)
        a2 == QMul(x.a, x.a)
        b2D == QMul(QMul(x.b, x.b), QInt(x.D))
    IN  IF sb = 0 THEN sa
        ELSE IF sa = 0 \/ sa = sb THEN sb
        ELSE IF QSign(QAdd(a2, QNeg(b2D))) > 0 THEN sa ELSE sb

\* the sign of a value that is not NaN
Sign(x) == IF x.k = "inf" THEN 1 ELSE IF x.k = "-inf" THEN -1 ELSE FSign(x)

FNeg(x) ==
    CASE x.k = "nan"  -> FNaN
      [] x.k = "inf"  -> FInf(-1)
      [] x.k = "-inf" -> FInf(1)
      [] x.k = "fin"  -> [k |-> "fin", a |-> QNeg(x.a), b |-> QNeg(x.b), D |-> x.D]

FAdd(x, y) ==
    IF IsNaN(x) \/ IsNaN(y) THEN FNaN
    ELSE IF ~IsFin(x) THEN (IF ~IsFin(y) /\ y.k # x.k THEN FNaN ELSE x)
    ELSE IF ~IsFin(y) THEN y
    ELSE IF x.b = Zero THEN Fin(QAdd(x.a, y.a), y.b, y.D)
    ELSE IF y.b = Zero \/ x.D = y.D THEN Fin(QAdd(x.a, y.a), QAdd(x.b, y.b), x.D)
    ELSE Unrepresentable

FSub(x, y) == FAdd(x, FNeg(y))

FMul(x, y) ==
    IF IsNaN(x) \/ IsNaN(y) THEN FNaN
    ELSE IF ~IsFin(x) \/ ~IsFin(y)
         THEN (IF Sign(x) * Sign(y) = 0 THEN FNaN ELSE FInf(Sign(x) * Sign(y)))
    ELSE IF x.b = Zero THEN Fin(QMul(x.a, y.a), QMul(x.a, y.b), y.D)
    ELSE IF y.b = Zero THEN Fin(QMul(x.a, y.a), QMul(x.b, y.a), x.D)
    ELSE IF x.D = y.D
         THEN Fin(QAdd(QMul(x.a, y.a), QMul(QMul(x.b, y.b), QInt(x.D))),
                  QAdd(QMul(x.a, y.b), QMul(x.b, y.a)), x.D)
    ELSE IF x.a = Zero /\ y.a = Zero THEN Fin(Zero, QMul(x.b, y.b), x.D * y.D)
    ELSE Unrepresentable

\* 1 / y for a finite y # 0
FInv(y) ==
    LET n == QAdd(QMul(y.a, y.a), QNeg(QMul(QMul(y.b, y.b), QInt(y.D))))
    IN  IF y.b = Zero THEN FRat(QDiv(QInt(1), y.a))
        ELSE [k |-> "fin", a |-> QDiv(y.a, n), b |-> QDiv(QNeg(y.b), n), D |-> y.D]

\* x / y; a zero divisor is +0.0
FDiv(x, y) ==
    IF IsNaN(x) \/ IsNaN(y) THEN FNaN
    ELSE IF ~IsFin(y) THEN (IF IsFin(x) THEN FInt(0) ELSE FNaN)
    ELSE IF FSign(y) = 0 THEN (IF Sign(x) = 0 THEN FNaN ELSE FInf(Sign(x)))
    ELSE IF ~IsFin(x) THEN FInf(Sign(x) * FSign(y))
    ELSE FMul(x, FInv(y))

FSq(x) == FMul(x, x)

\* The mutant of np_sqrt: a negative argument is clamped to 0.
sqrt_clamped(x) ==
    CASE x.k = "nan"  -> FNaN
      [] x.k = "inf"  -> FInf(1)
      [] x.k = "-inf" -> FInt(0)
      [] x.k = "fin"  ->
            IF x.b # Zero THEN Unrepresentable
            ELSE IF x.a[1] < 0 THEN FInt(0)
            ELSE Fin(Zero, << 1, x.a[2] >>, x.a[1] * x.a[2])

\* np.sqrt: NaN (and a RuntimeWarning) for a negative argument
np_sqrt(x) ==
    CASE x.k = "nan"  -> FNaN
      [] x.k = "inf"  -> FInf(1)
      [] x.k = "-inf" -> FNaN
      [] x.k = "fin"  ->
            IF x.b # Zero THEN Unrepresentable
            ELSE IF x.a[1] < 0 THEN FNaN
            ELSE Fin(Zero, << 1, x.a[2] >>, x.a[1] * x.a[2])

\* x <= y; every comparison with NaN is False
FLeq(x, y) ==
    IF IsNaN(x) \/ IsNaN(y) THEN FALSE
    ELSE IF x.k = "-inf" \/ y.k = "inf" THEN TRUE
    ELSE IF x.k = "inf" \/ y.k = "-inf" THEN FALSE
    ELSE FSign(FSub(y, x)) >= 0

FGeq(x, y) == FLeq(y, x)

(***************************************************************************)
(* utils.circle_intersection                                               *)
(***************************************************************************)
\* The mutant of circle_intersection: the second point repeats the signs of
\* the first in x.
circle_intersection_same_sign(x0, y0, r0, x1, y1, r1) ==
    Only({ Only({ Only({
        LET x3 == FAdd(FSub(FMul(FDiv(L, d), FSub(x1, x0)), FMul(FDiv(h, d), FSub(y1, y0))), x0)
            y3 == FAdd(FAdd(FMul(FDiv(L, d), FSub(y1, y0)), FMul(FDiv(h, d), FSub(x1, x0))), y0)
            x4 == FAdd(FSub(FMul(FDiv(L, d), FSub(x1, x0)), FMul(FDiv(h, d), FSub(y1, y0))), x0)
            y4 == FAdd(FSub(FMul(FDiv(L, d), FSub(y1, y0)), FMul(FDiv(h, d), FSub(x1, x0))), y0)
        IN  << << x3, y3 >>, << x4, y4 >> >>
        : h \in { np_sqrt(FSub(FSq(r0), FSq(L))) } })
        : L \in { FDiv(FAdd(FSub(FSq(r0), FSq(r1)), FSq(d)), FMul(FInt(2), d)) } })
        : d \in { np_sqrt(FAdd(FSq(FSub(x0, x1)), FSq(FSub(y0, y1)))) } })

circle_intersection(x0, y0, r0, x1, y1, r1) ==
    Only({ Only({ Only({
        LET x3 == FAdd(FSub(FMul(FDiv(L, d), FSub(x1, x0)), FMul(FDiv(h, d), FSub(y1, y0))), x0)
            y3 == FAdd(FAdd(FMul(FDiv(L, d), FSub(y1, y0)), FMul(FDiv(h, d), FSub(x1, x0))), y0)
            x4 == FAdd(FAdd(FMul(FDiv(L, d), FSub(x1, x0)), FMul(FDiv(h, d), FSub(y1, y0))), x0)
            y4 == FAdd(FSub(FMul(FDiv(L, d), FSub(y1, y0)), FMul(FDiv(h, d), FSub(x1, x0))), y0)
        IN  << << x3, y3 >>, << x4, y4 >> >>
        : h \in { np_sqrt(FSub(FSq(r0), FSq(L))) } })
        : L \in { FDiv(FAdd(FSub(FSq(r0), FSq(r1)), FSq(d)), FMul(FInt(2), d)) } })
        : d \in { np_sqrt(FAdd(FSq(FSub(x0, x1)), FSq(FSub(y0, y1)))) } })

(***************************************************************************)
(* utils._square_poly_coef and utils.circle_poly_intersection.  A Python   *)
(* sequence with indices 0..n is a sequence with indices 1..n+1.           *)
(***************************************************************************)
RECURSIVE FSumTo(_, _)
\* f[1] + ... + f[n]
FSumTo(f, n) == IF n = 0 THEN FInt(0) ELSE FAdd(FSumTo(f, n - 1), f[n])

\* a_i(i): coef[i] if i < len(coef), else 0
a_i(coef, idx) == IF idx < Len(coef) THEN coef[idx + 1] ELSE FInt(0)

\* The mutant of square_n_coef: the sum runs over range(n), as the docstring
\* has it.
square_n_coef_short(coef, n) ==
    FSumTo([m \in 1..n |-> FMul(a_i(coef, m - 1), a_i(coef, n - (m - 1)))], n)

\* n_coef(n): np.sum([a_i(i) * a_i(n - i) for i in range(n + 1)])
square_n_coef(coef, n) ==
    FSumTo([m \in 1..(n + 1) |-> FMul(a_i(coef, m - 1), a_i(coef, n - (m - 1)))], n + 1)

\* np.array([n_coef(n) for n in range(2 * len(coef) - 1)])
_square_poly_coef(coef) ==
    [m \in 1..(2 * Len(coef) - 1) |-> square_n_coef(coef, m - 1)]

\* The mutant of F_coef: F_coef[2] += 1 is missing.
F_coef_no_x2(r, x0, y0, poly_coef) ==
    IF Len(poly_coef) = 1
    THEN << FSub(FAdd(FSq(x0), FSq(FSub(y0, poly_coef[1]))), FSq(r)),
            FMul(FInt(-2), x0), FInt(1) >>
    ELSE Only({ Only({ Only({
             [c2 EXCEPT ![2] = FAdd(c2[2], FMul(FInt(-2), x0))]
             : c2 \in { [c1 EXCEPT ![1] = FAdd(c1[1], FSub(FAdd(FSq(x0), FSq(y0)), FSq(r)))] } })
             : c1 \in { [m \in 1..Len(sq) |->
                           IF m <= Len(poly_coef)
                           THEN FAdd(sq[m], FMul(FMul(FInt(-2), y0), poly_coef[m]))
                           ELSE sq[m]] } })
             : sq \in { _square_poly_coef(poly_coef) } })

\* The coefficients of F(x) = (x - x0)**2 + (y(x) - y0)**2 - r**2, ascending.
F_coef(r, x0, y0, poly_coef) ==
    IF Len(poly_coef) = 1
    THEN << FSub(FAdd(FSq(x0), FSq(FSub(y0, poly_coef[1]))), FSq(r)),
            FMul(FInt(-2), x0), FInt(1) >>
    ELSE Only({ Only({ Only({ Only({
             [c3 EXCEPT ![3] = FAdd(c3[3], FInt(1))]
             : c3 \in { [c2 EXCEPT ![2] = FAdd(c2[2], FMul(FInt(-2), x0))] } })
             : c2 \in { [c1 EXCEPT ![1] = FAdd(c1[1], FSub(FAdd(FSq(x0), FSq(y0)), FSq(r)))] } })
             : c1 \in { [m \in 1..Len(sq) |->
                           IF m <= Len(poly_coef)
                           THEN FAdd(sq[m], FMul(FMul(FInt(-2), y0), poly_coef[m]))
                           ELSE sq[m]] } })
             : sq \in { _square_poly_coef(poly_coef) } })

RECURSIVE TrimZeros(_)
\* pu.as_series: trailing zero coefficients are removed, one coefficient is kept
TrimZeros(c) ==
    IF Len(c) > 1 /\ c[Len(c)] = FInt(0) THEN TrimZeros(SubSeq(c, 1, Len(c) - 1)) ELSE c

\* np.polynomial.polynomial.polyroots for a polynomial of degree <= 2 after
\* trimming: every root, with multiplicity, sorted; a root is a record of
\* its real part and of whether its imaginary part is 0.
polyroots(c) ==
    Only({
        IF Len(t) < 2 THEN << >>
        ELSE IF Len(t) = 2
             THEN << [isreal |-> TRUE, re |-> FNeg(FDiv(t[1], t[2]))] >>
        ELSE IF Len(t) = 3
             THEN Only({ Only({
                      LET lo == IF FSign(twoa) > 0 THEN FSub(mid, half) ELSE FAdd(mid, half)
                          hi == IF FSign(twoa) > 0 THEN FAdd(mid, half) ELSE FSub(mid, half)
                      IN  IF FSign(disc) < 0
                          THEN << [isreal |-> FALSE, re |-> mid], [isreal |-> FALSE, re |-> mid] >>
                          ELSE << [isreal |-> TRUE, re |-> lo], [isreal |-> TRUE, re |-> hi] >>
                      : mid \in { FDiv(FNeg(t[2]), twoa) },
                        half \in { FDiv(np_sqrt(disc), twoa) } })
                      : disc \in { FSub(FSq(t[2]), FMul(FInt(4), FMul(t[1], t[3]))) },
                        twoa \in { FMul(FInt(2), t[3]) } })
        ELSE Unrepresentable
        : t \in { TrimZeros(c) } })

RECURSIVE PolyVal(_, _, _)
\* np.polynomial.Polynomial(coef)(x), the first n coefficients
PolyVal(coef, x, n) ==
    IF n = 0 THEN FInt(0)
    ELSE FAdd(coef[1], FMul(x, PolyVal(SubSeq(coef, 2, Len(coef)), x, n - 1)))

RECURSIVE SelectReal(_)
\* np.real(roots[np.isreal(roots)])
SelectReal(roots) ==
    IF roots = << >> THEN << >>
    ELSE IF roots[1].isreal THEN << roots[1].re >> \o SelectReal(Tail(roots))
    ELSE SelectReal(Tail(roots))

circle_poly_intersection(r, x0, y0, poly_coef) ==
    Only({ [m \in 1..Len(roots) |->
               << roots[m], PolyVal(poly_coef, roots[m], Len(poly_coef)) >>]
           : roots \in { SelectReal(polyroots(F_coef(r, x0, y0, poly_coef))) } })

\* ---- the calls of the model ----
MaxRadius == 4      \* largest radius
MaxCoef == 3        \* longest coefficient vector of _square_poly_coef

GeomCenters == { << 0, 0 >>, << 1, 2 >> }

GeomOffsets == { << 0, 0 >>, << 3, 0 >>, << 3, 4 >>, << 1, 1 >> }

CoefValues == { -1, 0, 2 }

Slopes == { -1, 0, 1 }

\* y(x) of circle_poly_intersection: constant, linear, and linear written with
\* a zero quadratic coefficient
CurveCoefs ==
    { << c >> : c \in CoefValues }
        \cup { << c, m >> : c \in CoefValues, m \in Slopes }
        \cup { << c, m, 0 >> : c \in CoefValues, m \in Slopes }

GeomCalls ==
    { [fn |-> "circle_intersection",
       args |-> << c[1], c[2], r0, c[1] + o[1], c[2] + o[2], r1 >>] :
          c \in GeomCenters, o \in GeomOffsets, r0 \in 0..MaxRadius, r1 \in 0..MaxRadius }
    \cup { [fn |-> "circle_poly_intersection", args |-> << r, c[1], c[2], pc >>] :
              r \in 0..MaxRadius, c \in GeomCenters, pc \in CurveCoefs }
    \cup { [fn |-> "_square_poly_coef", args |-> << cf >>] :
              cf \in UNION { [1..n -> CoefValues] : n \in 1..MaxCoef } }

AsFloats(seq) == [m \in 1..Len(seq) |-> FInt(seq[m])]

GeomIdle ==
    /\ fn = None
    /\ args = << >>
    /\ ret = None
    /\ gpc = "off"

InitGeom ==
    /\ \E c \in GeomCalls : fn = c.fn /\ args = c.args
    /\ ret = None
    /\ gpc = "call"

CallCircleIntersection ==
    /\ gpc = "call"
    /\ fn = "circle_intersection"
    /\ ret' = circle_intersection(FInt(args[1]), FInt(args[2]), FInt(args[3]),
                                  FInt(args[4]), FInt(args[5]), FInt(args[6]))
    /\ gpc' = "done"
    /\ UNCHANGED << fn, args >>

CallCirclePolyIntersection ==
    /\ gpc = "call"
    /\ fn = "circle_poly_intersection"
    /\ ret' = circle_poly_intersection(FInt(args[1]), FInt(args[2]), FInt(args[3]),
                                       AsFloats(args[4]))
    /\ gpc' = "done"
    /\ UNCHANGED << fn, args >>

CallSquarePolyCoef ==
    /\ gpc = "call"
    /\ fn = "_square_poly_coef"
    /\ ret' = _square_poly_coef(AsFloats(args[1]))
    /\ gpc' = "done"
    /\ UNCHANGED << fn, args >>

NextGeom ==
    \/ CallCircleIntersection /\ UNCHANGED << rvars, cvars, svars, bvars, pvars, evars >>
    \/ CallCirclePolyIntersection /\ UNCHANGED << rvars, cvars, svars, bvars, pvars, evars >>
    \/ CallSquarePolyCoef /\ UNCHANGED << rvars, cvars, svars, bvars, pvars, evars >>

(***************************************************************************)
(* var_func_on_poly and PLUME.train_variance.  A var_func_on_poly object   *)
(* is the tuple of its four attributes; mean_poly[t + 1] is the row of     *)
(* frame t.  The ensemble learner (regressions.var_ensemble_learn) returns *)
(* the best parameters (A_opt, w_opt, g_opt, B_opt) or raises.             *)
(***************************************************************************)
var_on_flattened_poly_params(obj) == obj[1]

poly_func_params(obj) == obj[2]

obj_orig_center(obj) == obj[3]

upper_lower_envelope(obj) == obj[4]

\* None, where the other values of the variable or result are tuples
NoneTuple == << >>

\* var_func_on_poly.__init__
var_func_on_poly_init == << None, None, None, "upper" >>

\* np.sin at the values the model reaches: sin(0) = 0, NaN off the finite values
np_sin(x) ==
    IF ~IsFin(x) THEN FNaN
    ELSE IF FSign(x) = 0 THEN FInt(0)
    ELSE Unrepresentable

\* var_func_on_poly.poly_func
poly_func(obj, t, x) ==
    LET row == poly_func_params(obj)[t + 1]
    IN  FAdd(FAdd(FMul(FRat(row[1]), FSq(x)), FMul(FRat(row[2]), x)), FRat(row[3]))

\* var_func_on_poly.sinusoid_func
sinusoid_func(obj, t, r) ==
    LET p == var_on_flattened_poly_params(obj)
    IN  FAdd(FMul(FRat(p[1]), np_sin(FSub(FMul(FRat(p[2]), r), FMul(FRat(p[3]), FInt(t))))),
             FMul(FRat(p[4]), r))

\* The mutant of EnvelopeHolds: every candidate is accepted.
EnvelopeAlways(side, y, y_mean) == side \in { "upper", "lower" }

\* sol[1] >= poly_func(t, sol[0]) for "upper", <= for "lower"
EnvelopeHolds(side, y, y_mean) ==
    IF side = "upper" THEN FGeq(y, y_mean)
    ELSE IF side = "lower" THEN FLeq(y, y_mean)
    ELSE FALSE

\* var_func_on_poly.eval_x: the first solution that satisfies the envelope test,
\* or None
eval_x(obj, t, x) ==
    LET x1 == x
        x0 == FInt(0)
        y0 == FInt(0)
    IN  Only({ Only({ Only({ Only({
            LET ok(m) == EnvelopeHolds(upper_lower_envelope(obj), sols[m][2],
                                       poly_func(obj, t, sols[m][1]))
            IN  IF ok(1) THEN sols[1] ELSE IF ok(2) THEN sols[2] ELSE NoneTuple
            : sols \in { circle_intersection(x0, y0, r, x1, y1, d) } })
            : d \in { sinusoid_func(obj, t, r) } })
            : r \in { np_sqrt(FAdd(FSq(FSub(x0, x1)), FSq(FSub(y0, y1)))) } })
            : y1 \in { poly_func(obj, t, x1) } })

\* The mutant of TrainedVar2: the envelope tag is left at its default.
TrainedVar2Untagged(param_opt, oc, mp) == << param_opt, mp, oc, "upper" >>

\* var1_func of train_variance: a new object with the three attributes set
TrainedVar1(param_opt, oc, mp) ==
    [var_func_on_poly_init EXCEPT ![1] = param_opt, ![3] = oc, ![2] = mp]

\* var2_func of train_variance: the same, tagged "lower"
TrainedVar2(param_opt, oc, mp) ==
    [var_func_on_poly_init EXCEPT ![1] = param_opt, ![3] = oc, ![2] = mp, ![4] = "lower"]

\* ---- the sessions of the model ----
MaxX == 2           \* |x| of the queries of eval_x

\* mean_poly: rows (a, b, c) of y = a x^2 + b x + c, one per frame
MeanPolys ==
    { << << << 0, 1 >>, << 1, 1 >>, << 0, 1 >> >>, << << 1, 2 >>, << 0, 1 >>, << -1, 1 >> >> >> }

\* learned parameters: the argument of the sine is 0, the drift B_opt varies
ParamPool ==
    { << << 1, 1 >>, << 0, 1 >>, << 0, 1 >>, B >> :
         B \in { << 1, 1 >>, << 2, 1 >>, << 3, 1 >> } }

SessionCenters == { None, << 1, 2 >> }

InitSession ==
    /\ self_orig_center \in SessionCenters
    /\ mean_poly \in MeanPolys
    /\ var1_params_opt = None
    /\ var2_params_opt = None
    /\ var1_func = None
    /\ var2_func = None
    /\ eval_call = << >>
    /\ vpc = "idle"

\* train_variance up to self.var1_func = var1_func; the caller has dropped
\* the result of the eval_x call before
TrainVar1(var1_param_opt) ==
    /\ vpc = "idle"
    /\ var1_params_opt' = var1_param_opt
    /\ var1_func' = TrainedVar1(var1_param_opt, self_orig_center, mean_poly)
    /\ vpc' = "var2"
    /\ eval_call' = NoneTuple
    /\ UNCHANGED << self_orig_center, mean_poly, var2_params_opt, var2_func >>

\* train_variance from there to its return
TrainVar2(var2_param_opt) ==
    /\ vpc = "var2"
    /\ var2_params_opt' = var2_param_opt
    /\ var2_func' = TrainedVar2(var2_param_opt, self_orig_center, mean_poly)
    /\ vpc' = "idle"
    /\ UNCHANGED << self_orig_center, mean_poly, var1_params_opt, var1_func, eval_call >>

\* the learner raises on the second data set: train_variance ends there
TrainVar2Raises ==
    /\ vpc = "var2"
    /\ vpc' = "idle"
    /\ UNCHANGED << self_orig_center, mean_poly, var1_params_opt, var2_params_opt,
                    var1_func, var2_func, eval_call >>

\* The caller is done with the result of eval_x.
DropResult ==
    /\ vpc = "idle"
    /\ eval_call # NoneTuple
    /\ eval_call' = NoneTuple
    /\ UNCHANGED << self_orig_center, mean_poly, var1_params_opt, var2_params_opt,
                    var1_func, var2_func, vpc >>

\* var1_func.eval_x(t, x) or var2_func.eval_x(t, x)
EvalX(which, t, x) ==
    /\ vpc = "idle"
    /\ eval_call = NoneTuple
    /\ LET obj == IF which = "var1" THEN var1_func ELSE var2_func
       IN  /\ obj # None
           /\ eval_call' = << which, t, x, eval_x(obj, t, FInt(x)), obj >>
    /\ UNCHANGED << self_orig_center, mean_poly, var1_params_opt, var2_params_opt,
                    var1_func, var2_func, vpc >>

NextSession ==
    \/ \E p \in ParamPool : TrainVar1(p) /\ UNCHANGED << rvars, cvars, gvars, bvars, pvars, evars >>
    \/ \E p \in ParamPool : TrainVar2(p) /\ UNCHANGED << rvars, cvars, gvars, bvars, pvars, evars >>
    \/ TrainVar2Raises /\ UNCHANGED << rvars, cvars, gvars, bvars, pvars, evars >>
    \/ \E which \in { "var1", "var2" }, t \in 0..1, x \in (-MaxX)..MaxX :
          EvalX(which, t, x) /\ UNCHANGED << rvars, cvars, gvars, bvars, pvars, evars >>
    \/ DropResult /\ UNCHANGED << rvars, cvars, gvars, bvars, pvars, evars >>

(***************************************************************************)
(* apply_gauss_time_blur.  A video is a sequence of frames of one pixel    *)
(* each (an intensity 0..255); Python index j is index j + 1.  The window  *)
(* weights exp(-x^2 / 2) (sigma = 1) are GaussThousandths.                 *)
(***************************************************************************)
\* scipy.signal.windows.gaussian(M, 1): w[n] = exp(-(n - (M-1)/2)^2 / 2), n = 0..M-1
gaussian(M) == [n \in 1..M |-> GaussThousandths(Abs(2 * (n - 1) - (M - 1)))]

\* convolve1d(a, gw / np.sum(gw), mode="constant", cval=0.0).astype(np.uint8):
\* the weighted sum over the window around each frame, zero outside the
\* array, truncated to an integer
convolve1d_uint8(a, gw) ==
    LET M == Len(gw)
        total == SumTo(gw, M)
        at(j) == IF j \in 1..Len(a) THEN a[j] ELSE 0
    IN  [j \in 1..Len(a) |->
            SumTo([n \in 1..M |-> gw[n] * at(j + (n - 1) - (M \div 2))], M) \div total]

\* The mutant of KernelRejected: no kernel size is rejected.
KernelNeverRejected(k) == FALSE

\* if kernel_size % 2 == 0: raise ValueError
KernelRejected(k) == k % 2 = 0

\* One iteration of the iterative branch for frame i (0-based): the window
\* arr[start_idx:end_idx], its convolution, and the element chosen from it.
\* A negative slice_index counts from the end; an index outside the window
\* raises IndexError.
IterativeFrame(a, k, frame) ==
    LET n == Len(a)
        start_idx == IF frame - k \div 2 > 0 THEN frame - k \div 2 ELSE 0
        end_idx == IF frame + k \div 2 + 1 < n THEN frame + k \div 2 + 1 ELSE n
        slice_arr == SubSeq(a, start_idx + 1, end_idx)
        convolved_slice == convolve1d_uint8(slice_arr, gaussian(k))
        m == Len(convolved_slice)
        idx0 == IF k \div 2 < m THEN k \div 2 ELSE m
        slice_index == IF frame < k THEN -1 * (idx0 + 1) ELSE idx0
        pos == IF slice_index < 0 THEN m + slice_index ELSE slice_index
    IN  IF pos \in 0..(m - 1)
        THEN [raised |-> FALSE, value |-> convolved_slice[pos + 1]]
        ELSE [raised |-> TRUE, value |-> 0]

\* ---- the calls of the model ----
MaxVid == 3         \* most frames of a video
MaxKernel == 4      \* largest kernel_size

Intensities == { 0, 100, 255 }

Videos == UNION { [1..n -> Intensities] : n \in 0..MaxVid }

InitBlur ==
    /\ blur_arr \in Videos
    /\ kernel_size \in 0..MaxKernel
    /\ iterative \in BOOLEAN
    /\ blurred_arr = None
    /\ blur_i = 0
    /\ bpc = "call"
    /\ bexc = None

\* Entry: the kernel size is checked, the window is computed.
BlurCheck ==
    /\ bpc = "call"
    /\ IF KernelRejected(kernel_size)
       THEN bpc' = "raised" /\ bexc' = "ValueError"
       ELSE bpc' = (IF iterative THEN "alloc" ELSE "whole") /\ bexc' = None
    /\ UNCHANGED << blur_arr, kernel_size, iterative, blurred_arr, blur_i >>

\* blurred_arr = np.zeros_like(arr, dtype=np.uint8)
BlurAlloc ==
    /\ bpc = "alloc"
    /\ blurred_arr' = [j \in 1..Len(blur_arr) |-> 0]
    /\ blur_i' = 0
    /\ bpc' = "loop"
    /\ UNCHANGED << blur_arr, kernel_size, iterative, bexc >>

\* One iteration of for i in range(arr.shape[AX_FRAME]).
BlurFrame ==
    /\ bpc = "loop"
    /\ blur_i < Len(blur_arr)
    /\ LET res == IterativeFrame(blur_arr, kernel_size, blur_i)
       IN  IF res.raised
           THEN /\ bpc' = "raised"
                /\ bexc' = "IndexError"
                /\ UNCHANGED << blurred_arr, blur_i >>
           ELSE /\ blurred_arr' = [blurred_arr EXCEPT ![blur_i + 1] = res.value]
                /\ blur_i' = blur_i + 1
                /\ UNCHANGED << bpc, bexc >>
    /\ UNCHANGED << blur_arr, kernel_size, iterative >>

\* The loop is over: return blurred_arr.
BlurLoopEnd ==
    /\ bpc = "loop"
    /\ blur_i = Len(blur_arr)
    /\ bpc' = "done"
    /\ UNCHANGED << blur_arr, kernel_size, iterative, blurred_arr, blur_i, bexc >>

\* The non-iterative branch: one convolution of the whole array, and return.
BlurWhole ==
    /\ bpc = "whole"
    /\ blurred_arr' = convolve1d_uint8(blur_arr, gaussian(kernel_size))
    /\ bpc' = "done"
    /\ UNCHANGED << blur_arr, kernel_size, iterative, blur_i, bexc >>

NextBlur ==
    \/ BlurCheck /\ UNCHANGED << rvars, cvars, gvars, svars, pvars, evars >>
    \/ BlurAlloc /\ UNCHANGED << rvars, cvars, gvars, svars, pvars, evars >>
    \/ BlurFrame /\ UNCHANGED << rvars, cvars, gvars, svars, pvars, evars >>
    \/ BlurLoopEnd /\ UNCHANGED << rvars, cvars, gvars, svars, pvars, evars >>
    \/ BlurWhole /\ UNCHANGED << rvars, cvars, gvars, svars, pvars, evars >>

(***************************************************************************)
(* flatten_edge_points and _create_radius_pairs.  A PlumePoints array is a *)
(* sequence of rows << r, x, y >>, r a rational and x, y integers.         *)
(***************************************************************************)
QAbs(p) == << Abs(p[1]), p[2] >>

\* p <= q for finite p and q: by the integer parts, then by the fractions
QLeq(p, q) ==
    IF p[1] \div p[2] # q[1] \div q[2] THEN p[1] \div p[2] < q[1] \div q[2]
    ELSE (p[1] % p[2]) * q[2] <= (q[1] % q[2]) * p[2]

\* np.isclose(a, b) with numpy's defaults rtol = 1e-5, atol = 1e-8:
\* |a - b| <= atol + rtol * |b|, both sides times 1e8; False at NaN.
isclose(a, b) ==
    /\ IsFinite(a)
    /\ IsFinite(b)
    /\ QLeq(QMul(QInt(100000000), QAbs(QAdd(a, QNeg(b)))),
            QAdd(QInt(1), QMul(QInt(1000), QAbs(b))))

\* mask, *_ = np.where(np.isclose(curve_1_pts[:, 0], r)): the matching rows
np_where_isclose(curve_1_pts, r) ==
    { m \in 1..Len(curve_1_pts) : isclose(curve_1_pts[m][1], r) }

\* The mutant of mask_first: the last matching row.
mask_last(mask) == CHOOSE m \in mask : \A m2 \in mask : m2 <= m

\* curve_1_pts[mask][0]: the first matching row
mask_first(mask) == CHOOSE m \in mask : \A m2 \in mask : m <= m2

RECURSIVE create_radius_pairs_upto(_, _, _)
\* the list pairs after the first n rows of curve_2_pts
create_radius_pairs_upto(curve_1_pts, curve_2_pts, n) ==
    IF n = 0 THEN << >>
    ELSE IF np_where_isclose(curve_1_pts, curve_2_pts[n][1]) = { }
    THEN create_radius_pairs_upto(curve_1_pts, curve_2_pts, n - 1)
    ELSE Append(create_radius_pairs_upto(curve_1_pts, curve_2_pts, n - 1),
                << curve_2_pts[n][1],
                   SubSeq(curve_1_pts[mask_first(np_where_isclose(curve_1_pts,
                                                                  curve_2_pts[n][1]))],
                          2, 3),
                   << curve_2_pts[n][2], curve_2_pts[n][3] >> >>)

_create_radius_pairs(curve_1_pts, curve_2_pts) ==
    create_radius_pairs_upto(curve_1_pts, curve_2_pts, Len(curve_2_pts))

\* np.linalg.norm(center_points - edge_points) of two (x, y)
np_linalg_norm_diff(center_points, edge_points) ==
    np_sqrt(FAdd(FSq(FInt(center_points[1] - edge_points[1])),
                 FSq(FInt(center_points[2] - edge_points[2]))))

\* rad_dist of the pairs, as np.array(rad_dist)
rad_dist_of(pairs) ==
    [p \in 1..Len(pairs) |->
        << pairs[p][1], np_linalg_norm_diff(pairs[p][2], pairs[p][3]) >>]

MaxFlat == 2        \* most rows of mean_points and of vari_points

\* Mean radii: 1 and a value np.isclose takes for 1; edge radii: 1 and 2.
FlatMeanRows ==
    { << r, c[1], c[2] >> : r \in { << 1, 1 >>, << 1000001, 1000000 >> },
                            c \in { << 0, 0 >>, << 3, 4 >> } }

FlatEdgeRows ==
    { << r, c[1], c[2] >> : r \in { << 1, 1 >>, << 2, 1 >> },
                            c \in { << 0, 0 >>, << 1, 1 >> } }

FlatCalls ==
    { << m, v >> : m \in UNION { [1..n -> FlatMeanRows] : n \in 0..MaxFlat },
                   v \in UNION { [1..n -> FlatEdgeRows] : n \in 0..MaxFlat } }

InitFlatten ==
    /\ fn = "flatten_edge_points"
    /\ args \in FlatCalls
    /\ ret = None
    /\ gpc = "call"

\* pairs = _create_radius_pairs(mean_points, vari_points)
FlattenPairs ==
    /\ gpc = "call"
    /\ fn = "flatten_edge_points"
    /\ ret' = _create_radius_pairs(args[1], args[2])
    /\ gpc' = "paired"
    /\ UNCHANGED << fn, args >>

\* the loop over pairs and return np.array(rad_dist)
FlattenReturn ==
    /\ gpc = "paired"
    /\ fn = "flatten_edge_points"
    /\ ret' = rad_dist_of(ret)
    /\ gpc' = "done"
    /\ UNCHANGED << fn, args >>

NextFlatten ==
    \/ FlattenPairs /\ UNCHANGED << rvars, cvars, svars, bvars, pvars, evars >>
    \/ FlattenReturn /\ UNCHANGED << rvars, cvars, svars, bvars, pvars, evars >>

(***************************************************************************)
(* PLUME.video_to_ROM.  A frame is one intensity, as in the videos of      *)
(* apply_gauss_time_blur; get_contour and concentric_circle are functions  *)
(* of the frame under the fixed keyword arguments of one call.             *)
(***************************************************************************)
\* a slice bound of arr[lo:hi] placed in 0..n as Python places it
slice_bound(n, b) ==
    IF b < 0 THEN (IF n + b < 0 THEN 0 ELSE n + b)
    ELSE IF b > n THEN n ELSE b

\* arr[start_frame:end_frame]
py_slice(arr, start_frame, end_frame) ==
    IF slice_bound(Len(arr), start_frame) >= slice_bound(Len(arr), end_frame)
    THEN << >>
    ELSE SubSeq(arr, slice_bound(Len(arr), start_frame) + 1,
                slice_bound(Len(arr), end_frame))

\* if end_frame == -1: end_frame = len(arr)
end_frame_of(arr, img_range) ==
    IF img_range[2] = -1 THEN Len(arr) ELSE img_range[2]

\* mean_k, var1_k, var2_k of one frame
concentric_circle_of(frame_k) ==
    << << "mean", frame_k >>, << "var1", frame_k >>, << "var2", frame_k >> >>

\* The mutant of frame_count: the index within the slice.
frame_count_in_slice(k, start_frame) == k

\* k += start_frame
frame_count(k, start_frame) == k + start_frame

RomCalls ==
    { << arr, << s, e >> >> :
          arr \in Videos, s \in (-1)..(MaxVid + 1), e \in (-2)..(MaxVid + 1) }

InitRom ==
    /\ fn = "video_to_ROM"
    /\ args \in RomCalls
    /\ ret = None
    /\ gpc = "call"

\* mean_points = [], var1_points = [], var2_points = [] and the range
RomStart ==
    /\ gpc = "call"
    /\ fn = "video_to_ROM"
    /\ ret' = << << >>, << >>, << >> >>
    /\ gpc' = "loop"
    /\ UNCHANGED << fn, args >>

\* One iteration of the for loop; enumerate's k is the number of entries so far.
RomFrame ==
    /\ gpc = "loop"
    /\ fn = "video_to_ROM"
    /\ Len(ret[1]) < Len(py_slice(args[1], args[2][1], end_frame_of(args[1], args[2])))
    /\ ret' =
         [L \in 1..3 |->
            Append(ret[L],
                   << frame_count(Len(ret[1]), args[2][1]),
                      concentric_circle_of(
                          py_slice(args[1], args[2][1],
                                   end_frame_of(args[1], args[2]))[Len(ret[1]) + 1])[L] >>)]
    /\ UNCHANGED << fn, args, gpc >>

\* return mean_points, var1_points, var2_points
RomReturn ==
    /\ gpc = "loop"
    /\ fn = "video_to_ROM"
    /\ Len(ret[1]) = Len(py_slice(args[1], args[2][1], end_frame_of(args[1], args[2])))
    /\ gpc' = "done"
    /\ UNCHANGED << fn, args, ret >>

NextRom ==
    \/ RomStart /\ UNCHANGED << rvars, cvars, svars, bvars, pvars, evars >>
    \/ RomFrame /\ UNCHANGED << rvars, cvars, svars, bvars, pvars, evars >>
    \/ RomReturn /\ UNCHANGED << rvars, cvars, svars, bvars, pvars, evars >>

(***************************************************************************)
(* PLUME.concentric_circle from the fit of the mean path to the return:    *)
(* np.polyfit, f_mean, the contour/ring test, the two sides of the mean    *)
(* curve, the representatives of the rings and the point sets of the       *)
(* edges.  The stage starts from a mean path as the ring search leaves it  *)
(* (mean_smoothing = False) and from the contours findContours selected.   *)
(***************************************************************************)
EdgesIdle ==
    /\ poly_deg_cc = 0
    /\ selected_contours = << >>
    /\ poly_coef_mean = << >>
    /\ intersection_points = << >>
    /\ var_above = << >>
    /\ var_below = << >>
    /\ var1_points = << >>
    /\ var2_points = << >>
    /\ points_var1 = << >>
    /\ points_var2 = << >>

\* points_mean[:, c] as a sequence
PathColumn(pm, c) == [k \in 1..Cardinality(DOMAIN pm) |-> pm[k - 1][c]]

\* np.polyfit(points_mean[:,0], points_mean[:,1], deg=poly_deg): every row of
\* the array is a sample
polyfit_mean(pm, deg) == PolyFit(PathColumn(pm, 1), PathColumn(pm, 2), deg)

\* f_mean = lambda x: poly_coef_mean[0]*x**2 + poly_coef_mean[1]*x + poly_coef_mean[2]
f_mean(coef, x) ==
    QAdd(QAdd(QMul(coef[1], QInt(x * x)), QMul(coef[2], QInt(x))), coef[3])

\* f_mean reads poly_coef_mean[2]: IndexError on a shorter vector
f_mean_raises(coef) == Len(coef) < 3

\* np.isclose(contour_dist, radius, rtol=1e-2), atol left at numpy's 1e-8.
\* Contour points, the origin and radius are integers: the squared distance is
\* an integer and the squared bounds ((1 -+ 1/100) * radius)^2 are multiples of
\* 1/10000, so that widening the bounds by 1e-8 admits no further squared
\* distance; the test is taken with atol = 0.
contour_isclose(d2, radius) == isclose_sqrt(d2, radius, << 1, 100 >>, << 0, 1 >>)

\* contour.reshape(-1,2)[dist_mask] for the given ring
contour_ring_points(contour, oc, radius) ==
    LET on_ring(pt) == contour_isclose(Dist2(<< pt[2], pt[1] >>, oc), radius)
    IN  SelectSeq(contour, on_ring)

\* if f_mean(point[0]) <= point[1]: var_above
is_above(coef, point) == QLeq(f_mean(coef, point[1]), QInt(point[2]))

points_above(coef, points) ==
    LET above(pt) == is_above(coef, pt)
    IN  SelectSeq(points, above)

points_below(coef, points) ==
    LET below(pt) == ~is_above(coef, pt)
    IN  SelectSeq(points, below)

\* np.round of total / count: to the nearest integer, a half to the even one
round_half_even(total, count) ==
    IF 2 * (total % count) < count THEN total \div count
    ELSE IF 2 * (total % count) > count THEN total \div count + 1
    ELSE IF (total \div count) % 2 = 0 THEN total \div count
    ELSE total \div count + 1

\* list(np.array(points).mean(axis=0).round().astype(int))
rounded_mean(points) ==
    << round_half_even(SumTo([k \in 1..Len(points) |-> points[k][1]], Len(points)),
                       Len(points)),
       round_half_even(SumTo([k \in 1..Len(points) |-> points[k][2]], Len(points)),
                       Len(points)) >>

\* The mutant of vstack_origin: the origin is stacked first.
vstack_origin_first(var_points, oc) == << oc >> \o var_points

\* np.vstack((np.array(var_points), list(self.orig_center))), and
\* np.array([self.orig_center]) for an empty list
vstack_origin(var_points, oc) == var_points \o << oc >>

MaxContour == 2     \* most points of a contour

\* Ring points of the input paths and contour points, as offsets from the
\* origin: at distance 5 or 10, or near 5.
PathSteps == { << 3, 4 >>, << 4, 3 >> }

ContourOffsets == << << 0, 5 >>, << 3, 4 >>, << 4, 3 >>, << 4, 4 >>, << 5, 0 >>, << 6, 8 >> >>

\* The mean paths: rings 1..h set, on the ring or one pixel off it, the
\* entries after a halt left at zero.
EdgePaths(n, oc) ==
    UNION { { [k \in 0..n |->
                 IF k = 0 THEN oc
                 ELSE IF k <= h THEN << oc[1] + k * d[k][1], oc[2] + k * d[k][2] >>
                 ELSE << 0, 0 >>] : d \in [1..h -> PathSteps] } : h \in 1..n }

\* The contours: none, or one contour of up to MaxContour points in the order
\* of ContourOffsets.
EdgeContours(oc) ==
    { << >> } \cup
    { << [k \in 1..Cardinality(S) |->
            LET o == ContourOffsets[CHOOSE m \in S : Cardinality({ m2 \in S : m2 < m }) = k - 1]
            IN  << oc[1] + o[1], oc[2] + o[2] >>] >> :
        S \in { T \in SUBSET (1..Len(ContourOffsets)) : Cardinality(T) \in 1..MaxContour } }

DistinctX(pm) == Cardinality({ pm[k][1] : k \in DOMAIN pm })

\* The state of a call that reached the fit of the mean path, with a path
\* that determines the polynomial (at least poly_deg + 1 different x).
InitEdges ==
    /\ orig_center \in Origins
    /\ img_gray = << >>
    /\ radii = 5
    /\ num_of_circs \in 1..MaxCircs
    /\ \E tol \in Tolerances :
          interior_scale = tol.scale /\ rtol = tol.rtol /\ atol = tol.atol
    /\ thresholded = TRUE
    /\ points_mean \in EdgePaths(num_of_circs, orig_center)
    /\ error_occured = (points_mean[num_of_circs] = << 0, 0 >>)
    /\ center = Only({ points_mean[h] : h \in { k \in 1..num_of_circs :
                           /\ points_mean[k] # << 0, 0 >>
                           /\ k = num_of_circs \/ points_mean[k + 1] = << 0, 0 >> } })
    /\ step = Cardinality({ k \in 1..num_of_circs : points_mean[k] # << 0, 0 >> }) + 1
    /\ cpc = "fit_mean"
    /\ exc = None
    /\ mean_smoothing = FALSE
    /\ mean_smoothing_sigma = 2
    /\ poly_deg_cc \in PolyDegs
    /\ DistinctX(points_mean) >= poly_deg_cc + 1
    /\ selected_contours \in EdgeContours(orig_center)
    /\ poly_coef_mean = << >>
    /\ intersection_points = << >>
    /\ var_above = << >>
    /\ var_below = << >>
    /\ var1_points = << >>
    /\ var2_points = << >>
    /\ points_var1 = << >>
    /\ points_var2 = << >>

\* The arguments and the locals of the ring search, which the stage reads only.
cc_read_only ==
    << orig_center, img_gray, radii, num_of_circs, interior_scale, rtol, atol,
       thresholded, points_mean, center, error_occured, mean_smoothing,
       mean_smoothing_sigma, poly_deg_cc, selected_contours >>

\* poly_coef_mean = np.polyfit(...); f_mean; y = f_mean(x) for the drawing of
\* the curve; var1_points = [], var2_points = []
FitMean ==
    /\ cpc = "fit_mean"
    /\ poly_coef_mean' = polyfit_mean(points_mean, poly_deg_cc)
    /\ IF f_mean_raises(polyfit_mean(points_mean, poly_deg_cc))
       THEN cpc' = "raised" /\ exc' = "IndexError" /\ UNCHANGED step
       ELSE cpc' = "edge_ring" /\ exc' = None /\ step' = 1
    /\ UNCHANGED << cc_read_only, intersection_points, var_above, var_below,
                    var1_points, var2_points, points_var1, points_var2 >>

\* One iteration of for step in range(1, num_of_circs+1): the intersection
\* points of the last selected contour, which are unbound without a contour,
\* the two sides and their representatives.
EdgeRing ==
    /\ cpc = "edge_ring"
    /\ step <= num_of_circs
    /\ IF selected_contours = << >>
       THEN /\ cpc' = "raised"
            /\ exc' = "UnboundLocalError"
            /\ UNCHANGED << step, intersection_points, var_above, var_below,
                            var1_points, var2_points >>
       ELSE /\ \E pts \in { contour_ring_points(selected_contours[Len(selected_contours)],
                                                orig_center, step * radii) } :
                 /\ intersection_points' = pts
                 /\ var_above' = points_above(poly_coef_mean, pts)
                 /\ var_below' = points_below(poly_coef_mean, pts)
                 /\ var1_points' =
                        IF points_above(poly_coef_mean, pts) # << >>
                        THEN Append(var1_points,
                                    rounded_mean(points_above(poly_coef_mean, pts)))
                        ELSE var1_points
                 /\ var2_points' =
                        IF points_below(poly_coef_mean, pts) # << >>
                        THEN Append(var2_points,
                                    rounded_mean(points_below(poly_coef_mean, pts)))
                        ELSE var2_points
            /\ step' = step + 1
            /\ UNCHANGED << cpc, exc >>
    /\ UNCHANGED << cc_read_only, poly_coef_mean, points_var1, points_var2 >>

\* Concatenate original center to both lists
EdgeConcat ==
    /\ cpc = "edge_ring"
    /\ step > num_of_circs
    /\ points_var1' = vstack_origin(var1_points, orig_center)
    /\ points_var2' = vstack_origin(var2_points, orig_center)
    /\ cpc' = "edge_fit"
    /\ UNCHANGED << cc_read_only, step, exc, poly_coef_mean, intersection_points,
                    var_above, var_below, var1_points, var2_points >>

\* The two point sets are drawn and fitted, and the call returns.
EdgeReturn ==
    /\ cpc = "edge_fit"
    /\ cpc' = "done"
    /\ UNCHANGED << cc_read_only, step, exc, poly_coef_mean, intersection_points,
                    var_above, var_below, var1_points, var2_points, points_var1,
                    points_var2 >>

NextEdges ==
    \/ FitMean /\ UNCHANGED << rvars, gvars, svars, bvars, pvars >>
    \/ EdgeRing /\ UNCHANGED << rvars, gvars, svars, bvars, pvars >>
    \/ EdgeConcat /\ UNCHANGED << rvars, gvars, svars, bvars, pvars >>
    \/ EdgeReturn /\ UNCHANGED << rvars, gvars, svars, bvars, pvars >>

(***************************************************************************)
(* Specifications.                                                         *)
(***************************************************************************)
TrackIdle ==
    /\ orig_center = None
    /\ img_gray = << >>
    /\ radii = 0
    /\ num_of_circs = 0
    /\ interior_scale = << 0, 1 >>
    /\ rtol = << 0, 1 >>
    /\ atol = << 0, 1 >>
    /\ thresholded = FALSE
    /\ points_mean = << >>
    /\ center = None
    /\ step = 0
    /\ error_occured = FALSE
    /\ cpc = "off"
    /\ exc = None
    /\ mean_smoothing = FALSE
    /\ mean_smoothing_sigma = 0

SessionIdle ==
    /\ self_orig_center = None
    /\ mean_poly = << >>
    /\ var1_params_opt = None
    /\ var2_params_opt = None
    /\ var1_func = None
    /\ var2_func = None
    /\ eval_call = << >>
    /\ vpc = "off"

BlurIdle ==
    /\ blur_arr = << >>
    /\ kernel_size = 0
    /\ iterative = FALSE
    /\ blurred_arr = None
    /\ blur_i = 0
    /\ bpc = "off"
    /\ bexc = None

\* The regression batch alone.
InitR == InitRegress /\ TrackIdle /\ GeomIdle /\ SessionIdle /\ BlurIdle /\ WorkersIdle /\ EdgesIdle

SpecRegress == InitR /\ [][NextRegress]_vars

\* The ring tracker alone.
InitT == RegressIdle /\ InitTrack /\ GeomIdle /\ SessionIdle /\ BlurIdle /\ WorkersIdle /\ EdgesIdle

SpecTrack == InitT /\ [][NextTrack]_vars

\* The math functions alone.
InitG == RegressIdle /\ TrackIdle /\ InitGeom /\ SessionIdle /\ BlurIdle /\ WorkersIdle /\ EdgesIdle

SpecGeom == InitG /\ [][NextGeom]_vars

\* A PLUME session of train_variance and eval_x calls alone.
InitS == RegressIdle /\ TrackIdle /\ GeomIdle /\ InitSession /\ BlurIdle /\ WorkersIdle /\ EdgesIdle

SpecSession == InitS /\ [][NextSession]_vars

\* apply_gauss_time_blur alone.
InitB == RegressIdle /\ TrackIdle /\ GeomIdle /\ SessionIdle /\ InitBlur /\ WorkersIdle /\ EdgesIdle

SpecBlur == InitB /\ [][NextBlur]_vars

\* The regression batch with its frames handed to workers.
InitW == InitWorkers /\ TrackIdle /\ GeomIdle /\ SessionIdle /\ BlurIdle /\ WorkersIdle /\ EdgesIdle

SpecWorkers == InitW /\ [][NextWorkers]_vars

\* flatten_edge_points alone.
InitF ==
    RegressIdle /\ TrackIdle /\ InitFlatten /\ SessionIdle /\ BlurIdle /\ WorkersIdle /\ EdgesIdle

SpecFlatten == InitF /\ [][NextFlatten]_vars

\* video_to_ROM alone.
InitV ==
    RegressIdle /\ TrackIdle /\ InitRom /\ SessionIdle /\ BlurIdle /\ WorkersIdle /\ EdgesIdle

SpecRom == InitV /\ [][NextRom]_vars

\* concentric_circle from the mean fit on, alone.
InitE ==
    RegressIdle /\ InitEdges /\ GeomIdle /\ SessionIdle /\ BlurIdle /\ WorkersIdle

SpecEdges == InitE /\ [][NextEdges]_vars

\* All of them.
Init ==
    InitR \/ InitT \/ InitG \/ InitS \/ InitB \/ InitW \/ InitF \/ InitV \/ InitE

Next ==
    \/ NextRegress \/ NextTrack \/ NextGeom \/ NextSession \/ NextBlur
    \/ NextWorkers \/ NextFlatten \/ NextRom \/ NextEdges

Spec == Init /\ [][Next]_vars

(***************************************************************************)
(* Claims about regress_multiframe_mean (checked under SpecRegress).       *)
(***************************************************************************)
\* The points of a frame with the offset subtracted from x and y beforehand.
PreSubtracted(arr, off) ==
    IF off = None THEN arr
    ELSE [k \in 1..Len(arr) |-> << arr[k][1], arr[k][2] - off[1], arr[k][3] - off[2] >>]

\* The frame at list position j (1-based) is under-determined for the call's mode.
FrameFails(j) ==
    regress_frame_mean(PreSubtracted(mean_points_before[j][2], decenter),
                       regression_method, poly_deg).raised

AllNaN(row) == \A c \in 1..Len(row) : row[c] = NaN

AllFinite(row) == \A c \in 1..Len(row) : IsFinite(row[c])

\* C1: a frame whose fit fails with a linear-algebra error gets a row of n_coef
\* NaNs and the batch goes on: the call never aborts, every frame handled so far
\* has its row, and every other frame's row is the finite result of its own fit.
C1_NaNRowIsolated ==
    /\ rpc # "raised"
    /\ rpc = "done" => i = Len(mean_points_before)
    /\ rpc \in { "loop", "done" } =>
         \A j \in 1..i :
            LET row == coef_time_series[j]
            IN  /\ Len(row) = n_coef
                /\ IF FrameFails(j)
                   THEN AllNaN(row)
                   ELSE /\ AllFinite(row)
                        /\ row = regress_frame_mean(
                                     PreSubtracted(mean_points_before[j][2], decenter),
                                     regression_method, poly_deg).coef

\* C1 witness: the call returned, a failed frame is followed by a fitted one.
C1_Witness ==
    /\ rpc = "done"
    /\ Len(mean_points_before) = 2
    /\ FrameFails(1) /\ AllNaN(coef_time_series[1]) /\ n_coef > 0
    /\ ~FrameFails(2) /\ AllFinite(coef_time_series[2])

\* C2: regress_multiframe_mean never mutates its input: in every state of the
\* call the arrays of mean_points equal the caller's copy taken before the call.
C2_InputNotMutated == mean_points = mean_points_before

\* C2 witness: a returned call with a decenter offset, one failed and one fitted frame.
C2_Witness ==
    /\ rpc = "done"
    /\ decenter # None
    /\ n_warnings > 0
    /\ \E j \in 1..Len(mean_points) :
          /\ Len(mean_points[j][2]) > 0
          /\ AllFinite(coef_time_series[j])

\* C3: row j of the returned series is the result of the loop body on the j-th
\* entry of mean_points, by list position and whatever frame number the tuple
\* stores; no other entry enters it.
C3_OrderPreserved ==
    rpc = "done" =>
        /\ Len(coef_time_series) = Len(mean_points_before)
        /\ \A j \in 1..Len(mean_points_before) :
              coef_time_series[j] =
                  FrameResult(mean_points_before[j][2], regression_method,
                              poly_deg, decenter, n_coef).value

\* C3 witness: two frames with different rows whose stored frame numbers are
\* not their list positions.
C3_Witness ==
    /\ rpc = "done"
    /\ Len(mean_points_before) = 2
    /\ mean_points_before[1][1] # 0
    /\ mean_points_before[2][1] # 1
    /\ coef_time_series[1] # coef_time_series[2]
    /\ AllFinite(coef_time_series[1])
    /\ AllFinite(coef_time_series[2])

\* C4: the series returned with decenter = offset equals the series of the same
\* call without decenter on points whose x and y had the offset subtracted
\* beforehand (the radius column unshifted).
C4_DecenterCommutes ==
    rpc = "done" =>
        coef_time_series =
            [j \in 1..Len(mean_points_before) |->
                FrameResult(PreSubtracted(mean_points_before[j][2], decenter),
                            regression_method, poly_deg, None, n_coef).value]

\* C4 witness: a returned parametric fit (which reads the radius) with an offset.
C4_Witness ==
    /\ rpc = "done"
    /\ decenter # None
    /\ regression_method = "poly_para"
    /\ poly_deg > 0
    /\ \E j \in 1..Len(coef_time_series) : AllFinite(coef_time_series[j])

\* The column count the mode fixes.
ColumnsOfMode(method, deg) ==
    CASE method = "linear"    -> 2
      [] method = "poly"      -> deg + 1
      [] method = "poly_inv"  -> deg + 1
      [] method = "poly_para" -> 2 * (deg + 1)

\* C5: the array has one row per entry of mean_points (none for an empty list)
\* and the column count of the mode: 2 for 'linear' whatever poly_deg, poly_deg+1
\* for 'poly' and 'poly_inv', 2*(poly_deg+1) for 'poly_para'.
C5_Shape ==
    rpc \in { "loop", "done" } =>
        /\ Len(coef_time_series) = Len(mean_points_before)
        /\ n_coef = ColumnsOfMode(regression_method, poly_deg)
        /\ \A j \in 1..Len(coef_time_series) :
              Len(coef_time_series[j]) = ColumnsOfMode(regression_method, poly_deg)

\* C5 witness: a returned 'linear' series with poly_deg = 2 and two rows.
C5_Witness ==
    /\ rpc = "done"
    /\ regression_method = "linear"
    /\ poly_deg = 2
    /\ Len(coef_time_series) = 2
    /\ Len(coef_time_series[1]) = 2

(***************************************************************************)
(* Claims about the ring tracker (checked under SpecTrack).  In the states *)
(* with cpc = "ring" or "searched" the mean path is as the ring search     *)
(* wrote it: rings 1..step-1 are set, step is the ring being searched or   *)
(* the ring the search halted on.                                          *)
(***************************************************************************)
InSearch == cpc \in { "ring", "searched" }

GridPoints == { << ix[2], ix[1] >> : ix \in Indices(img_gray) }

Intensity(p) == img_gray[p[2]][p[1]]

PointDist2(p, q) == (p[1] - q[1]) * (p[1] - q[1]) + (p[2] - q[2]) * (p[2] - q[2])

\* |dist(p, c) - r| <= atol + rtol * r, with the call's rtol and atol
OnRing(p, c, r) ==
    LET q == rtol[2] * atol[2]
        tol == atol[1] * rtol[2] + rtol[1] * r * atol[2]
        d2 == q * q * PointDist2(p, c)
    IN  /\ d2 <= (q * r + tol) * (q * r + tol)
        /\ q * r >= tol => d2 >= (q * r - tol) * (q * r - tol)

\* dist(p, prev) <= r * interior_scale
NearPrevious(p, prev, r) ==
    interior_scale[2] * interior_scale[2] * PointDist2(p, prev)
        <= (r * interior_scale[1]) * (r * interior_scale[1])

RingPoints(r) == { p \in GridPoints : OnRing(p, orig_center, r) }

Candidates(k, prev) ==
    { p \in RingPoints(k * radii) : NearPrevious(p, prev, k * radii) }

RowMajorBefore(p, q) == p[2] < q[2] \/ (p[2] = q[2] /\ p[1] < q[1])

\* p is the brightest point of S, and the first of the brightest in row-major order
FirstBrightest(S, p) ==
    /\ p \in S
    /\ \A q \in S : /\ Intensity(q) <= Intensity(p)
                    /\ Intensity(q) = Intensity(p) => ~RowMajorBefore(q, p)

\* C6: a call with the Origin undeclared raises, and it raises before any
\* thresholding, ring search or fit: nothing of the frame has been processed.
C6_UndeclaredOriginRaisesFirst ==
    (cpc # "idle" /\ orig_center = None) =>
        /\ cpc = "raised"
        /\ exc = "TypeError"
        /\ ~thresholded
        /\ points_mean = << >>
        /\ center = None

\* C6 witness: a call made with the Origin undeclared has raised.
C6_Witness == cpc = "raised" /\ exc = "TypeError" /\ orig_center = None /\ img_gray # << >>

\* C7: when the candidate set of ring k >= 2 is empty the search stops, rings
\* 1..k-1 keep their accepted points and every ring >= k stays unset (zero), so
\* the set entries of the mean path form a prefix of the ring indices.
C7_HaltLeavesPrefix ==
    /\ [](InSearch =>
            /\ step \in 2..(num_of_circs + 1)
            /\ \A j \in step..num_of_circs : points_mean[j] = << 0, 0 >>
            /\ \A j \in 1..(step - 1) : points_mean[j] \in RingPoints(j * radii)
            /\ cpc = "searched" =>
                  IF error_occured
                  THEN step <= num_of_circs /\ Candidates(step, points_mean[step - 1]) = { }
                  ELSE step = num_of_circs + 1)
    /\ [][(cpc = "ring" /\ step <= num_of_circs
                /\ Candidates(step, points_mean[step - 1]) = { })
            => (cpc' = "searched" /\ points_mean' = points_mean /\ step' = step)]_vars
    /\ [][(cpc = "ring" /\ InSearch')
            => \A j \in 0..(step - 1) : points_mean'[j] = points_mean[j]]_vars

\* C7 witness: the search halted on ring 3 after accepting rings 1 and 2; ring 3
\* has pixels at its radius, none of them near the point of ring 2.
C7_Witness ==
    /\ cpc = "searched"
    /\ error_occured
    /\ step = 3
    /\ RingPoints(3 * radii) # { }
    /\ points_mean[2] # << 0, 0 >>
    /\ points_mean[3] = << 0, 0 >>

\* C8: an empty candidate ring is never an error, the first ring included:
\* concentric_circle does not raise on it.
C8_EmptyRingNeverRaises ==
    ~(cpc = "raised" /\ orig_center # None /\ RingPoints(radii) = { })

\* C9: the point of ring 1 is on the exact-radius ring around the Origin, has
\* the maximum intensity of that ring and is the first of the maxima in
\* row-major order, as (x, y) = (column, row).
C9_Ring1Maximum ==
    InSearch => FirstBrightest(RingPoints(radii), points_mean[1])

\* C9 witness: two ring pixels share a maximum above the background, and the
\* returned one is not the first pixel of the ring.
C9_Witness ==
    /\ InSearch
    /\ Intensity(points_mean[1]) > 0
    /\ \E q \in RingPoints(radii) :
          /\ RowMajorBefore(points_mean[1], q)
          /\ Intensity(q) = Intensity(points_mean[1])
    /\ \E q \in RingPoints(radii) : RowMajorBefore(q, points_mean[1])

\* C10: for every ring k >= 2 the accepted point passes the exact-radius test
\* against the Origin and the locality test against the previously accepted
\* point, is the brightest such pixel, first in row-major order among equals;
\* no pixel outside that candidate set is returned.
C10_NextCenterInCandidates ==
    InSearch =>
        \A k \in 2..(step - 1) :
            FirstBrightest(Candidates(k, points_mean[k - 1]), points_mean[k])

\* C10 witness: a ring pixel outside the locality disc is brighter than the
\* accepted point.
C10_Witness ==
    /\ InSearch
    /\ step > 2
    /\ \E q \in RingPoints(2 * radii) :
          /\ q \notin Candidates(2, points_mean[1])
          /\ Intensity(q) > Intensity(points_mean[2])

(***************************************************************************)
(* Claims about the math functions (checked under SpecGeom).  The          *)
(* arguments of a call are integers; the conditions on them are computed   *)
(* in integer arithmetic, apart from the functions.                        *)
(***************************************************************************)
CI_Done == gpc = "done" /\ fn = "circle_intersection"

\* d**2 of the two centers
CI_d2 == (args[1] - args[4]) * (args[1] - args[4]) + (args[2] - args[5]) * (args[2] - args[5])

\* r0**2 - r1**2 + d**2, so that L = CI_K / (2 d)
CI_K == args[3] * args[3] - args[6] * args[6] + CI_d2

\* 0 < d and r0**2 >= L**2
CI_Proper == CI_d2 > 0 /\ 4 * CI_d2 * args[3] * args[3] >= CI_K * CI_K

\* d = r0 + r1 or d = |r0 - r1|
CI_Tangent ==
    \/ CI_d2 = (args[3] + args[6]) * (args[3] + args[6])
    \/ CI_d2 = (args[3] - args[6]) * (args[3] - args[6])

\* the square of the distance of the point p from (cx, cy)
FDist2(p, cx, cy) == FAdd(FSq(FSub(p[1], FInt(cx))), FSq(FSub(p[2], FInt(cy))))

\* C11: for properly intersecting circles (0 < d, r0^2 >= L^2) both returned
\* points are at distance r0 from (x0, y0) and at distance r1 from (x1, y1);
\* they are mirror images across the line through the centers, and they
\* coincide exactly when the circles are tangent.
C11_IntersectionsOnBothCircles ==
    (CI_Done /\ CI_Proper) =>
        /\ \A m \in 1..2 :
              /\ IsFin(ret[m][1]) /\ IsFin(ret[m][2])
              /\ FDist2(ret[m], args[1], args[2]) = FInt(args[3] * args[3])
              /\ FDist2(ret[m], args[4], args[5]) = FInt(args[6] * args[6])
        /\ LET dx == FInt(args[4] - args[1])
               dy == FInt(args[5] - args[2])
               sx == FSub(FAdd(ret[1][1], ret[2][1]), FInt(2 * args[1]))
               sy == FSub(FAdd(ret[1][2], ret[2][2]), FInt(2 * args[2]))
           IN  /\ FAdd(FMul(FSub(ret[1][1], ret[2][1]), dx),
                       FMul(FSub(ret[1][2], ret[2][2]), dy)) = FInt(0)
               /\ FSub(FMul(sx, dy), FMul(sy, dx)) = FInt(0)
        /\ (ret[1] = ret[2]) <=> CI_Tangent

\* C11 witness: two distinct intersection points with irrational coordinates.
C11_Witness ==
    /\ CI_Done
    /\ CI_Proper
    /\ ~CI_Tangent
    /\ ret[1] # ret[2]
    /\ ret[1][1].b # Zero

\* C12: for concentric circles (d = 0) and for circles that do not intersect
\* (r0^2 < L^2) no coordinate of a returned point is a finite real number: h is
\* not clamped to 0.
C12_NoValidResult ==
    (CI_Done /\ ~CI_Proper) =>
        \A m \in 1..2 : IsNaN(ret[m][1]) /\ IsNaN(ret[m][2])

\* C12 witness: two circles apart from each other, with centers off both axes.
C12_Witness ==
    /\ CI_Done
    /\ CI_d2 > (args[3] + args[6]) * (args[3] + args[6])
    /\ args[1] # args[4] /\ args[2] # args[5]
    /\ args[3] > 0 /\ args[6] > 0
    /\ IsNaN(ret[1][1]) /\ IsNaN(ret[2][2])

CP_Done == gpc = "done" /\ fn = "circle_poly_intersection"

\* y(x) = CP_c + CP_m x
CP_c == args[4][1]

CP_m == IF Len(args[4]) >= 2 THEN args[4][2] ELSE 0

\* F(x) = CP_A x^2 + CP_B x + CP_C, from the definition of F
CP_A == 1 + CP_m * CP_m

CP_B == 2 * (CP_m * (CP_c - args[3]) - args[2])

CP_C == args[2] * args[2] + (CP_c - args[3]) * (CP_c - args[3]) - args[1] * args[1]

CP_Disc == CP_B * CP_B - 4 * CP_A * CP_C

\* rational abscissas n/dd at which F is evaluated directly
CP_Candidates == (-8..8) \X (1..2)

\* C14: every returned pair (x, y) has x real, y = y(x) and
\* (x - x0)^2 + (y - y0)^2 = r^2; every real root of F yields a pair (one per
\* root, with multiplicity) and complex roots yield none, so the result is
\* empty when F has no real root.  The constant polynomial is included.
C14_PairsAreTheRealRoots ==
    CP_Done =>
        /\ \A m \in 1..Len(ret) :
              /\ IsFin(ret[m][1])
              /\ ret[m][2] = FAdd(FInt(CP_c), FMul(FInt(CP_m), ret[m][1]))
              /\ FDist2(ret[m], args[2], args[3]) = FInt(args[1] * args[1])
        /\ Len(ret) = IF CP_Disc < 0 THEN 0 ELSE 2
        /\ CP_Disc > 0 => ret[1][1] # ret[2][1]
        /\ \A q \in CP_Candidates :
              (CP_A * q[1] * q[1] + CP_B * q[1] * q[2] + CP_C * q[2] * q[2] = 0)
                  => \E m \in 1..Len(ret) : ret[m][1] = FRat(Rat(q[1], q[2]))

\* C14 witness: a sloped line written with three coefficients meets the circle
\* in two points with irrational abscissas.
C14_Witness ==
    /\ CP_Done
    /\ Len(args[4]) = 3
    /\ CP_m # 0
    /\ Len(ret) = 2
    /\ ret[1][1].b # Zero
    /\ ret[1][1] # ret[2][1]

SQ_Done == gpc = "done" /\ fn = "_square_poly_coef"

\* sum of a_i * a_(k-i) over the i with both indices in 0..n
SQ_Conv(a, k) ==
    LET n == Len(a) - 1
        lo == IF k - n > 0 THEN k - n ELSE 0
        hi == IF k < n THEN k ELSE n
    IN  SumTo([j \in 1..(hi - lo + 1) |-> a[lo + j] * a[k - (lo + j - 1) + 1]],
              hi - lo + 1)

\* the value at x of the polynomial with ascending integer coefficients a
SQ_Value(a, x) == SumTo([j \in 1..Len(a) |-> a[j] * Pow(x, j - 1)], Len(a))

EV_Obj == eval_call[5]

EV_t == eval_call[2]

EV_x == FInt(eval_call[3])

EV_ret == eval_call[4]

\* y_mean = mean_curve(t, x), from the session's coefficients
EV_ymean ==
    LET row == mean_poly[EV_t + 1]
    IN  FAdd(FAdd(FMul(FRat(row[1]), FSq(EV_x)), FMul(FRat(row[2]), EV_x)), FRat(row[3]))

\* r^2 = ||(x, y_mean)||^2
EV_r2 == FAdd(FSq(EV_x), FSq(EV_ymean))

\* the value at px of the mean curve of frame t
EV_MeanAt(px) ==
    LET row == mean_poly[EV_t + 1]
    IN  FAdd(FAdd(FMul(FRat(row[1]), FSq(px)), FMul(FRat(row[2]), px)), FRat(row[3]))

\* p is a real point on both circles (of squared radius r2 around (0, 0), of
\* radius d around (x, ymean)) and on the object's side of the mean curve
EV_Accepts(p, ymean, r2, d) ==
    /\ IsFin(p[1]) /\ IsFin(p[2])
    /\ FAdd(FSq(p[1]), FSq(p[2])) = r2
    /\ FAdd(FSq(FSub(p[1], EV_x)), FSq(FSub(p[2], ymean))) = FSq(d)
    /\ IF upper_lower_envelope(EV_Obj) = "upper"
       THEN FGeq(p[2], EV_MeanAt(p[1]))
       ELSE FLeq(p[2], EV_MeanAt(p[1]))

\* the two candidates, in solution order
EV_Sols ==
    Only({ circle_intersection(FInt(0), FInt(0), np_sqrt(r2), EV_x, ymean,
                               sinusoid_func(EV_Obj, EV_t, np_sqrt(r2)))
           : ymean \in { EV_ymean }, r2 \in { EV_r2 } })

\* the circles meet: 0 < r and d^2 <= 4 r^2 (the centers are r apart)
EV_Real(r2, d) == FSign(r2) > 0 /\ FLeq(FSq(d), FMul(FInt(4), r2))

\* C13: eval_x(t, x) returns a point only if it is an intersection of the
\* circle of radius r = ||(x, y_mean)|| around (0, 0) with the circle of radius
\* d = sinusoid(t, r) around (x, y_mean) that satisfies the envelope predicate
\* of the model; it returns the first such candidate in solution order, and None
\* when there is none, which includes every query with a non-real intersection.
C13_EvalReturnsEnvelopePoint ==
    eval_call # NoneTuple =>
        \A ymean \in { EV_ymean } : \A r2 \in { FAdd(FSq(EV_x), FSq(ymean)) } :
        \A d \in { sinusoid_func(EV_Obj, EV_t, np_sqrt(r2)) } :
        \A sols \in { circle_intersection(FInt(0), FInt(0), np_sqrt(r2), EV_x, ymean, d) } :
            /\ EV_ret # NoneTuple => EV_Accepts(EV_ret, ymean, r2, d)
            /\ EV_ret = IF EV_Accepts(sols[1], ymean, r2, d) THEN sols[1]
                        ELSE IF EV_Accepts(sols[2], ymean, r2, d) THEN sols[2]
                        ELSE NoneTuple
            /\ ~EV_Real(r2, d) => EV_ret = NoneTuple

\* C13 witness: the first candidate fails the envelope test of a lower model
\* and the second one is returned.
C13_Witness ==
    /\ eval_call # NoneTuple
    /\ eval_call[1] = "var2"
    /\ EV_ret # NoneTuple
    /\ \E sols \in { EV_Sols } : EV_ret = sols[2] /\ EV_ret # sols[1]

\* The object is as train_variance made it for the given side of the session.
VarModelIntact(obj, side, params_opt) ==
    obj # None =>
        /\ upper_lower_envelope(obj) = side
        /\ obj_orig_center(obj) = self_orig_center
        /\ poly_func_params(obj) = mean_poly
        /\ var_on_flattened_poly_params(obj) = params_opt

\* C16: after any sequence of train_variance and eval_x calls var1_func is
\* tagged 'upper' and var2_func 'lower', each holds the session's Origin and
\* mean-curve coefficients and exactly the parameters stored as
\* var1_params_opt / var2_params_opt; eval_x changes none of these fields.
C16_VarianceModelsImmutable ==
    /\ [](/\ VarModelIntact(var1_func, "upper", var1_params_opt)
          /\ VarModelIntact(var2_func, "lower", var2_params_opt))
    /\ [][(eval_call' # NoneTuple /\ eval_call' # eval_call) =>
            UNCHANGED << var1_func, var2_func, var1_params_opt, var2_params_opt,
                         self_orig_center, mean_poly >>]_vars

\* C16 witness: both models were trained twice over, with different
\* parameters, and the lower one has been evaluated.
C16_Witness ==
    /\ vpc = "idle"
    /\ var1_func # None /\ var2_func # None
    /\ var1_params_opt # var2_params_opt
    /\ self_orig_center # None
    /\ eval_call # NoneTuple
    /\ eval_call[1] = "var2"
    /\ EV_ret # NoneTuple

(***************************************************************************)
(* Claims about apply_gauss_time_blur (checked under SpecBlur).            *)
(***************************************************************************)
\* C15: an even kernel_size is rejected with a ValueError before any frame is
\* blurred, with iterative True and False; no output array is produced.
C15_EvenKernelRejectedFirst ==
    (bpc # "off" /\ kernel_size % 2 = 0) =>
        /\ bpc \in { "call", "raised" }
        /\ bpc = "raised" => bexc = "ValueError"
        /\ blurred_arr = None
        /\ blur_i = 0

\* C15 witness: a video of several frames was refused for an even kernel in
\* the non-iterative mode.
C15_Witness ==
    /\ bpc = "raised"
    /\ bexc = "ValueError"
    /\ kernel_size = 2
    /\ ~iterative
    /\ Len(blur_arr) > 1
    /\ blurred_arr = None

(***************************************************************************)
(* Claims about the mean path after smoothing (checked under SpecTrack).   *)
(***************************************************************************)
\* The mean path is the one drawn and fitted once the smoothing step is over.
Fitted == cpc \in { "smoothed", "done" }

\* Entry k of that path as a pair of rationals, smoothing on or off.
FittedEntry(k) ==
    IF mean_smoothing
    THEN points_mean[k]
    ELSE << Rat(points_mean[k][1], 1), Rat(points_mean[k][2], 1) >>

\* C18: the smoothing step changes y-coordinates only: every entry keeps its
\* x-coordinate, and the entries keep their number and their order (with
\* smoothing off the path is not touched at all).
C18_SmoothingKeepsX ==
    [][(cpc = "searched" /\ cpc' = "smoothed") =>
          /\ DOMAIN points_mean' = DOMAIN points_mean
          /\ IF mean_smoothing
             THEN \A k \in DOMAIN points_mean :
                      points_mean'[k][1] = Rat(points_mean[k][1], 1)
             ELSE points_mean' = points_mean]_cpc

\* C18 witness: a smoothed path with two different x-coordinates, all of them
\* still whole pixel columns, and a y-coordinate that is no longer a whole number.
C18_Witness ==
    /\ cpc = "smoothed"
    /\ mean_smoothing
    /\ \E j, k \in DOMAIN points_mean : points_mean[j][1] # points_mean[k][1]
    /\ \A k \in DOMAIN points_mean : points_mean[k][1][2] = 1
    /\ \E k \in DOMAIN points_mean : points_mean[k][2][2] # 1

\* C19: in the mean path that is drawn and fitted, with mean smoothing on or
\* off, every entry for a ring >= the halting ring still carries the unset
\* value (0, 0) and no value derived from the accepted points.
C19_UnsetBeyondHalt ==
    (Fitted /\ error_occured) =>
        \A j \in step..num_of_circs : FittedEntry(j) = << Zero, Zero >>

\* C20: in the mean path that is fitted, entry 0 equals orig_center in both
\* coordinates, mean smoothing included.
C20_EntryZeroIsOrigin ==
    Fitted => FittedEntry(0) = << Rat(orig_center[1], 1), Rat(orig_center[2], 1) >>

\* C27: for every video of n >= 1 frames and every odd kernel_size the
\* iterative branch ends without an exception and returns the array that the
\* whole-array convolution returns, videos shorter than the kernel included.
C27_IterativeEqualsWhole ==
    (bpc \in { "raised", "done" } /\ kernel_size % 2 = 1 /\ Len(blur_arr) >= 1) =>
        /\ bpc = "done"
        /\ blurred_arr = convolve1d_uint8(blur_arr, gaussian(kernel_size))

(***************************************************************************)
(* Claims about the batch of regress_multiframe_mean as a sequence of      *)
(* per-frame units of work.                                                *)
(***************************************************************************)
\* C25: once the row of frame i has been written (a fit or a NaN row) no later
\* step of the batch changes it: between two frames the rows of the frames
\* already handled have their final values.
C25_RowsCommitted ==
    [][rpc = "loop" =>
          /\ i' >= i
          /\ \A j \in 1..i : coef_time_series'[j] = coef_time_series[j]]_vars

\* C25 witness: the batch stands between frame 0 and frame 1, the row of frame 0
\* holds a fit and differs from the row np.zeros left for frame 1.
C25_Witness ==
    /\ rpc = "loop"
    /\ i = 1
    /\ Len(mean_points) = 2
    /\ AllFinite(coef_time_series[1])
    /\ coef_time_series[1] # coef_time_series[2]

\* C24: the frames have no dependency on one another: fitted by workers in any
\* order and interleaving, each assigning only the row of its own list position,
\* the returned series is the series of the sequential loop, NaN rows included.
C24_AnyOrderSameSeries ==
    /\ [](rpc # "raised")
    /\ [](rpc = "done" =>
             /\ Len(coef_time_series) = Len(mean_points_before)
             /\ \A j \in 1..Len(mean_points_before) :
                   coef_time_series[j] =
                       FrameResult(mean_points_before[j][2], regression_method,
                                   poly_deg, decenter, n_coef).value)
    /\ [][rpc = "workers" =>
             \A j \in 1..Len(coef_time_series) :
                 coef_time_series'[j] # coef_time_series[j] =>
                     \E w \in inflight \ inflight' : w.pos = j - 1]_vars

\* C24 witness: of two frames the second one has its row, a fit, while the
\* first is fitted but its row is still the one np.zeros left; the first frame
\* fails and will get a NaN row.
C24_Witness ==
    /\ rpc = "workers"
    /\ Len(mean_points_before) = 2
    /\ pending = { }
    /\ \E w \in inflight : w.pos = 0 /\ AllNaN(w.value) /\ n_coef > 0
    /\ Cardinality(inflight) = 1
    /\ AllFinite(coef_time_series[2])
    /\ coef_time_series[2] # coef_time_series[1]

(***************************************************************************)
(* Claims about flatten_edge_points (checked under SpecFlatten).           *)
(***************************************************************************)
FlatMatches(e) ==
    { m \in 1..Len(args[1]) : isclose(args[1][m][1], args[2][e][1]) }

FlatKept == { e \in 1..Len(args[2]) : FlatMatches(e) # { } }

\* C26: the result has one row per edge point whose radius np.isclose matches
\* the radius of some mean point, in the order of the edge points and without
\* the other edge points; the row holds the edge point's radius and the
\* Euclidean distance from the first matching mean point's (x, y) to the edge
\* point's (x, y); there are never more rows than edge points.
C26_OneRowPerMatchedEdgePoint ==
    (fn = "flatten_edge_points" /\ gpc = "done") =>
        /\ Len(ret) = Cardinality(FlatKept)
        /\ Len(ret) <= Len(args[2])
        /\ \A e \in FlatKept :
              \E m \in FlatMatches(e) :
                 /\ \A m2 \in FlatMatches(e) : m <= m2
                 /\ \E p \in { Cardinality({ e2 \in FlatKept : e2 <= e }) } :
                       /\ ret[p][1] = args[2][e][1]
                       /\ FSign(ret[p][2]) >= 0
                       /\ FSq(ret[p][2]) =
                              FInt((args[1][m][2] - args[2][e][2])
                                       * (args[1][m][2] - args[2][e][2])
                                   + (args[1][m][3] - args[2][e][3])
                                       * (args[1][m][3] - args[2][e][3]))

\* C26 witness: the first edge point has no mean point of its radius, the
\* second one has two of them at different places, one with a radius that is
\* close to and not equal to its own; the one row holds an irrational distance.
C26_Witness ==
    /\ fn = "flatten_edge_points" /\ gpc = "done"
    /\ Len(args[1]) = 2 /\ Len(args[2]) = 2
    /\ FlatMatches(1) = { }
    /\ FlatMatches(2) = { 1, 2 }
    /\ args[1][1][1] # args[2][2][1]
    /\ SubSeq(args[1][1], 2, 3) # SubSeq(args[1][2], 2, 3)
    /\ Len(ret) = 1
    /\ ret[1][2].b # Zero

(***************************************************************************)
(* Claims about video_to_ROM (checked under SpecRom).                      *)
(***************************************************************************)
\* C28: the three returned lists are parallel: with img_range = (s, e) and
\* e = -1 read as len(arr), each has one entry per frame of arr[s:e], in frame
\* order; entry j of each list carries the frame count s + j and the result of
\* the j-th frame of the range, the same frame for mean, var1 and var2; for
\* s >= 0 that frame is frame s + j of arr.
C28_ParallelLists ==
    (fn = "video_to_ROM" /\ gpc = "done") =>
        \A range \in { py_slice(args[1], args[2][1],
                                IF args[2][2] = -1 THEN Len(args[1]) ELSE args[2][2]) } :
            \A L \in 1..3 :
                /\ Len(ret[L]) = Len(range)
                /\ \A j \in 0..(Len(range) - 1) :
                      /\ ret[L][j + 1][1] = args[2][1] + j
                      /\ ret[L][j + 1][2][1] = << "mean", "var1", "var2" >>[L]
                      /\ ret[L][j + 1][2][2] = range[j + 1]
                      /\ args[2][1] >= 0 => range[j + 1] = args[1][args[2][1] + j + 1]

\* C28 witness: a range that starts after frame 0 and runs to the end of the
\* video through e = -1, with two different frames in it.
C28_Witness ==
    /\ fn = "video_to_ROM" /\ gpc = "done"
    /\ Len(args[1]) = 3
    /\ args[2] = << 1, -1 >>
    /\ Len(ret[1]) = 2
    /\ ret[1][1][1] = 1 /\ ret[3][2][1] = 2
    /\ ret[2][1][2][2] # ret[2][2][2][2]
    /\ args[1][1] # args[1][2]

(***************************************************************************)
(* Claims about concentric_circle from the mean fit on (checked under      *)
(* SpecEdges).                                                             *)
(***************************************************************************)
\* A ring of the edge loop has been handled; the last one is ring step - 1.
RingHandled == cpc \in { "edge_ring", "edge_fit", "done" } /\ step > 1

RECURSIVE CurveAt(_, _, _)
\* the polynomial with the first n coefficients of coef, highest power first, at x
CurveAt(coef, n, x) ==
    IF n = 0 THEN Zero ELSE QAdd(QMul(CurveAt(coef, n - 1, x), QInt(x)), coef[n])

\* C21: for every poly_deg the call gets to the split, and each contour/ring
\* intersection point (x, y) is on exactly one side: above iff y >= P(x) for
\* the fitted mean curve P of degree poly_deg, below otherwise, none left out.
C21_EverySideByMeanCurve ==
    /\ ~(cpc = "raised" /\ exc = "IndexError")
    /\ RingHandled =>
          /\ Len(var_above) + Len(var_below) = Len(intersection_points)
          /\ \A k \in 1..Len(intersection_points) :
                \A pt \in { intersection_points[k] } :
                    IF QLeq(CurveAt(poly_coef_mean, poly_deg_cc + 1, pt[1]), QInt(pt[2]))
                    THEN /\ \E a \in 1..Len(var_above) : var_above[a] = pt
                         /\ \A b \in 1..Len(var_below) : var_below[b] # pt
                    ELSE /\ \E b \in 1..Len(var_below) : var_below[b] = pt
                         /\ \A a \in 1..Len(var_above) : var_above[a] # pt

\* The coordinate-wise sums of a list of points.
PointSum(points) ==
    << SumTo([k \in 1..Len(points) |-> points[k][1]], Len(points)),
       SumTo([k \in 1..Len(points) |-> points[k][2]], Len(points)) >>

\* entry is the coordinate-wise mean of points
IsCentroid(entry, points) ==
    /\ Len(points) * entry[1] = PointSum(points)[1]
    /\ Len(points) * entry[2] = PointSum(points)[2]

\* C22: handling ring k gives each side exactly one new entry when at least one
\* intersection point lies on that side, the centroid (coordinate-wise mean) of
\* those points, and no entry otherwise.
C22_OneCentroidPerRingAndSide ==
    [][(cpc = "edge_ring" /\ cpc' = "edge_ring") =>
          /\ IF var_above' = << >> THEN var1_points' = var1_points
             ELSE /\ Len(var1_points') = Len(var1_points) + 1
                  /\ SubSeq(var1_points', 1, Len(var1_points)) = var1_points
                  /\ IsCentroid(var1_points'[Len(var1_points')], var_above')
          /\ IF var_below' = << >> THEN var2_points' = var2_points
             ELSE /\ Len(var2_points') = Len(var2_points) + 1
                  /\ SubSeq(var2_points', 1, Len(var2_points)) = var2_points
                  /\ IsCentroid(var2_points'[Len(var2_points')], var_below')]_vars

\* C23: the contour/ring test has the tolerance of the ring search: a contour
\* point p is an intersection point of ring k iff
\* |dist(p, Origin) - k*radii| <= atol + rtol*k*radii for the caller's rtol, atol.
C23_CallerToleranceOnContour ==
    (RingHandled /\ selected_contours # << >>) =>
        \A k \in 1..Len(selected_contours[1]) :
            \A pt \in { selected_contours[1][k] } :
                isclose_sqrt(Dist2(<< pt[2], pt[1] >>, orig_center),
                             (step - 1) * radii, rtol, atol)
                    <=> \E m \in 1..Len(intersection_points) : intersection_points[m] = pt

\* The set entries of the mean path: the origin and the accepted ring points.
SetEntries ==
    [k \in 1..(1 + Cardinality({ j \in 1..num_of_circs : points_mean[j] # << 0, 0 >> }))
        |-> points_mean[k - 1]]

\* C29: the mean-curve coefficients are the least-squares fit of exactly the
\* set entries of the mean path; the entries a halt left unset are no samples.
C29_FitOfSetEntriesOnly ==
    (cpc \in { "edge_ring", "edge_fit", "done" }
        /\ Cardinality({ SetEntries[k][1] : k \in 1..Len(SetEntries) }) >= poly_deg_cc + 1) =>
        poly_coef_mean = PolyFit(Col(SetEntries, 1), Col(SetEntries, 2), poly_deg_cc)

\* C30: the point set fitted for each edge is the representatives of its side,
\* ring after ring, followed by orig_center: never empty, the Origin last, and
\* the Origin alone when no ring has a point on that side.
C30_EdgeSetEndsWithOrigin ==
    /\ [](cpc \in { "edge_fit", "done" } =>
            /\ Len(points_var1) = Len(var1_points) + 1
            /\ Len(points_var2) = Len(var2_points) + 1
            /\ points_var1[Len(points_var1)] = orig_center
            /\ points_var2[Len(points_var2)] = orig_center
            /\ \A k \in 1..Len(var1_points) : points_var1[k] = var1_points[k]
            /\ \A k \in 1..Len(var2_points) : points_var2[k] = var2_points[k])
    /\ [][(cpc = "edge_ring" /\ cpc' = "edge_ring") =>
            /\ step' = step + 1
            /\ \/ var1_points' = var1_points
               \/ var1_points' = Append(var1_points, rounded_mean(var_above'))
            /\ \/ var2_points' = var2_points
               \/ var2_points' = Append(var2_points, rounded_mean(var_below'))]_vars

\* C30 witness: a returned call in which two rings have a point above the mean
\* curve and no ring has one below it.
C30_Witness ==
    /\ cpc = "done"
    /\ Len(points_var1) = 3
    /\ points_var1[1] # points_var1[2]
    /\ points_var2 = << orig_center >>

====
